---- MODULE Spec2Model ----
(***************************************************************************)
(* Tiled matrix-multiplication step simulator (TiledMatmulGeminiDemo) of   *)
(* skhattak.dev: the tiling constants, the step decoder, the partial       *)
(* result materializer and the playback/navigation controller with its    *)
(* autoplay interval.                                                      *)
(*                                                                         *)
(* Matrices are functions over 0-based index ranges, as the arrays of the  *)
(* source are.  A cell of the output is <<>> (null) or <<v>> (the number   *)
(* v), so that "unset" is distinct from every number.                      *)
(***************************************************************************)
EXTENDS Integers, Sequences, FiniteSets, TLC

(***************************************************************************)
(* Bounds of the model.                                                    *)
(***************************************************************************)
\* seeds 0..MaxSeed of buildMatrix are drawn as input matrices
MaxSeed == 2
\* single-entry input matrices carry an entry in -MaxEntry..-1
MaxEntry == 1
\* the slider is asked for values up to MaxSeekOver outside [min, max]
MaxSeekOver == 2
\* getTileRange is called with dimension extents 1..MaxExtent
MaxExtent == 9
\* getTileRange is called with tile indices up to MaxTileOver outside the valid ones
MaxTileOver == 2
\* the step decoder is called with steps up to MaxStepOver outside [0, TOTAL_STEPS)
MaxStepOver == 2
\* the tiling constants are derived for M, N, K and tile sizes in 1..MaxConfig
MaxConfig == 3
\* single-entry images and kernels carry an entry in 1..MaxPixel
MaxPixel == 1
\* an upstream feed holds up to MaxFeedItems entries
MaxFeedItems == 2
\* a feed component issues up to MaxRequests requests
MaxRequests == 3
\* the load effect of a feed component runs up to MaxEffects times
MaxEffects == 2
\* limits are requested, and long feeds are served, up to MaxOverCap above 24
MaxOverCap == 1

(***************************************************************************)
(* Tiling constants.                                                       *)
(***************************************************************************)
TILE_SIZE == 4
M == 7
N == 6
K == 9

\* mutant: the quotient is rounded down
MathCeilDiv_floor(a, b) == a \div b

\* Math.ceil(a / b) for an integer a and a positive integer b
MathCeilDiv(a, b) == IF a % b = 0 THEN a \div b ELSE (a \div b) + 1

ROW_TILES == MathCeilDiv(M, TILE_SIZE)
INNER_TILES == MathCeilDiv(N, TILE_SIZE)
COL_TILES == MathCeilDiv(K, TILE_SIZE)
TOTAL_STEPS == ROW_TILES * COL_TILES * INNER_TILES

\* mutant: the tile counts are rounded down
DerivedConstants_floor(m, n, k, tileSize) ==
    LET rowTiles == m \div tileSize
        innerTiles == n \div tileSize
        colTiles == k \div tileSize
    IN  <<rowTiles, innerTiles, colTiles, rowTiles * colTiles * innerTiles>>

\* ROW_TILES, INNER_TILES, COL_TILES and TOTAL_STEPS as the module derives
\* them, for any configuration (M, N, K, TILE_SIZE)
DerivedConstants(m, n, k, tileSize) ==
    LET rowTiles == MathCeilDiv(m, tileSize)
        innerTiles == MathCeilDiv(n, tileSize)
        colTiles == MathCeilDiv(k, tileSize)
    IN  <<rowTiles, innerTiles, colTiles, rowTiles * colTiles * innerTiles>>

(***************************************************************************)
(* JavaScript arithmetic used by the component.                            *)
(***************************************************************************)
\* a % b of JavaScript for b > 0: the result has the sign of the dividend
JsMod(a, b) == IF a >= 0 THEN a % b ELSE -((-a) % b)

\* Math.floor(a / b) for b > 0
MathFloorDiv(a, b) == a \div b

MathMin(a, b) == IF a <= b THEN a ELSE b
MathMax(a, b) == IF a >= b THEN a ELSE b

(***************************************************************************)
(* Output cells: null or a number.                                         *)
(***************************************************************************)
null == <<>>
Num(v) == <<v>>

(***************************************************************************)
(* Pure functions of the simulator.                                        *)
(***************************************************************************)
\* mutant: the remainder is taken without the final + 1
buildMatrix_noOffset(rows, cols, seed) ==
    [r \in 0..(rows - 1) |->
        [c \in 0..(cols - 1) |->
            JsMod(r * (seed + 2) + c * (seed + 3) + seed, 9)]]

buildMatrix(rows, cols, seed) ==
    [r \in 0..(rows - 1) |->
        [c \in 0..(cols - 1) |->
            JsMod(r * (seed + 2) + c * (seed + 3) + seed, 9) + 1]]

\* mutant: the end is not limited to the last index of the dimension
getTileRange_noClamp(tileIndex, maxSize) ==
    LET start == tileIndex * TILE_SIZE
        end == start + TILE_SIZE - 1
    IN  <<start, end>>

\* mutant: the end is computed as an exclusive bound
getTileRange_exclusiveEnd(tileIndex, maxSize) ==
    LET start == tileIndex * TILE_SIZE
        end == MathMin(start + TILE_SIZE, maxSize)
    IN  <<start, end>>

getTileRange(tileIndex, maxSize) ==
    LET start == tileIndex * TILE_SIZE
        end == MathMin(start + TILE_SIZE - 1, maxSize - 1)
    IN  <<start, end>>

inRange(index, bounds) == index >= bounds[1] /\ index <= bounds[2]

\* mutant: the "+ 1" of delta is missing
tileContributionCount_offByOne(s, rowTile, colTile) ==
    LET tileIndex == rowTile * COL_TILES + colTile
        baseStep == tileIndex * INNER_TILES
        delta == s - baseStep
    IN  IF delta <= 0 THEN 0 ELSE MathMin(INNER_TILES, delta)

\* mutant: the linear index of a tile is taken with the stride ROW_TILES
tileContributionCount_rowStride(s, rowTile, colTile) ==
    LET tileIndex == rowTile * ROW_TILES + colTile
        baseStep == tileIndex * INNER_TILES
        delta == s - baseStep + 1
    IN  IF delta <= 0 THEN 0 ELSE MathMin(INNER_TILES, delta)

\* mutant: the count is not capped at INNER_TILES
tileContributionCount_uncapped(s, rowTile, colTile) ==
    LET tileIndex == rowTile * COL_TILES + colTile
        baseStep == tileIndex * INNER_TILES
        delta == s - baseStep + 1
    IN  IF delta <= 0 THEN 0 ELSE delta

tileContributionCount(s, rowTile, colTile) ==
    LET tileIndex == rowTile * COL_TILES + colTile
        baseStep == tileIndex * INNER_TILES
        delta == s - baseStep + 1
    IN  IF delta <= 0 THEN 0 ELSE MathMin(INNER_TILES, delta)

\* the loop "for n = lo; n <= hi" of buildPartialC, added to acc
RECURSIVE SumInner(_, _, _, _, _, _, _)
SumInner(A, B, r, c, n, hi, acc) ==
    IF n > hi THEN acc
    ELSE SumInner(A, B, r, c, n + 1, hi, acc + A[r][n] * B[n][c])

\* mutant: the loop runs while innerTile <= contributions
RECURSIVE SumTiles_inclusive(_, _, _, _, _, _, _)
SumTiles_inclusive(A, B, r, c, innerTile, contributions, acc) ==
    IF innerTile > contributions THEN acc
    ELSE LET innerRange == getTileRange(innerTile, N)
         IN  SumTiles_inclusive(A, B, r, c, innerTile + 1, contributions,
                                SumInner(A, B, r, c, innerRange[1], innerRange[2], acc))

\* the loop "for innerTile = 0; innerTile < contributions" of buildPartialC
RECURSIVE SumTiles(_, _, _, _, _, _, _)
SumTiles(A, B, r, c, innerTile, contributions, acc) ==
    IF innerTile >= contributions THEN acc
    ELSE LET innerRange == getTileRange(innerTile, N)
         IN  SumTiles(A, B, r, c, innerTile + 1, contributions,
                      SumInner(A, B, r, c, innerRange[1], innerRange[2], acc))

\* mutant: the row range is taken against K instead of M
PartialCWrites_rowsAgainstK(s) ==
    UNION {
        LET rowRange == getTileRange(t[1], K)
            colRange == getTileRange(t[2], K)
            contributions == tileContributionCount(s, t[1], t[2])
        IN  IF contributions <= 0 THEN {}
            ELSE {[r |-> r, c |-> c, order |-> t[1] * COL_TILES + t[2],
                   contributions |-> contributions] :
                    r \in rowRange[1]..rowRange[2], c \in colRange[1]..colRange[2]}
        : t \in (0..(ROW_TILES - 1)) \X (0..(COL_TILES - 1))}

\* the assignments out[r][c] = sum that the loops of buildPartialC perform at
\* step s: for every output tile with contributions, one per (r, c) of its
\* row and column ranges; order is the position of the tile in loop order
PartialCWrites(s) ==
    UNION {
        LET rowRange == getTileRange(t[1], M)
            colRange == getTileRange(t[2], K)
            contributions == tileContributionCount(s, t[1], t[2])
        IN  IF contributions <= 0 THEN {}
            ELSE {[r |-> r, c |-> c, order |-> t[1] * COL_TILES + t[2],
                   contributions |-> contributions] :
                    r \in rowRange[1]..rowRange[2], c \in colRange[1]..colRange[2]}
        : t \in (0..(ROW_TILES - 1)) \X (0..(COL_TILES - 1))}

\* the index triples (r, n, c) of the reads matrixA[r][n] and matrixB[n][c]
\* that the loops of buildPartialC perform at step s
PartialCReads(s) ==
    UNION {
        UNION {
            LET innerRange == getTileRange(innerTile, N)
            IN  {<<w.r, n, w.c>> : n \in innerRange[1]..innerRange[2]}
            : innerTile \in 0..(w.contributions - 1)}
        : w \in PartialCWrites(s)}

\* mutant: the sum keeps only the latest inner tile instead of accumulating
buildPartialC_lastTileOnly(A, B, s) ==
    LET writes == PartialCWrites(s)
    IN  [r \in 0..(M - 1) |->
            [c \in 0..(K - 1) |->
                LET W == {w \in writes : w.r = r /\ w.c = c}
                IN  IF W = {} THEN null
                    ELSE LET last == CHOOSE w \in W : \A u \in W : u.order <= w.order
                         IN  Num(SumTiles(A, B, r, c, last.contributions - 1,
                                          last.contributions, 0))]]

\* out[r][c] after the loops: null if never assigned, else the sum stored by
\* the last assignment to (r, c) in loop order
buildPartialC(A, B, s) ==
    LET writes == PartialCWrites(s)
    IN  [r \in 0..(M - 1) |->
            [c \in 0..(K - 1) |->
                LET W == {w \in writes : w.r = r /\ w.c = c}
                IN  IF W = {} THEN null
                    ELSE LET last == CHOOSE w \in W : \A u \in W : u.order <= w.order
                         IN  Num(SumTiles(A, B, r, c, 0, last.contributions, 0))]]

\* mutant: the column tile is not reduced modulo COL_TILES
DecodeStep_colNotReduced(s) ==
    LET inner == JsMod(s, INNER_TILES)
        col == MathFloorDiv(s, INNER_TILES)
        row == MathFloorDiv(s, INNER_TILES * COL_TILES)
    IN  [rowTile |-> row, colTile |-> col, innerTile |-> inner]

\* mutant: the row tile is reduced modulo ROW_TILES
DecodeStep_rowReduced(s) ==
    LET inner == JsMod(s, INNER_TILES)
        col == JsMod(MathFloorDiv(s, INNER_TILES), COL_TILES)
        row == JsMod(MathFloorDiv(s, INNER_TILES * COL_TILES), ROW_TILES)
    IN  [rowTile |-> row, colTile |-> col, innerTile |-> inner]

\* the decoded triple of a step
DecodeStep(s) ==
    LET inner == JsMod(s, INNER_TILES)
        col == JsMod(MathFloorDiv(s, INNER_TILES), COL_TILES)
        row == MathFloorDiv(s, INNER_TILES * COL_TILES)
    IN  [rowTile |-> row, colTile |-> col, innerTile |-> inner]

\* mutant: the row and column tile are passed in the wrong order
cTileProgress_swapped(s) ==
    [r \in 0..(ROW_TILES - 1) |->
        [c \in 0..(COL_TILES - 1) |-> tileContributionCount(s, c, r)]]

cTileProgress(s) ==
    [r \in 0..(ROW_TILES - 1) |->
        [c \in 0..(COL_TILES - 1) |-> tileContributionCount(s, r, c)]]

\* mutant: the partialC memo lacks step among its dependencies, so it keeps
\* the value computed by the first render
Render_staleMemo(A, B, s) ==
    LET d == DecodeStep(s)
    IN  [rowTile |-> d.rowTile, colTile |-> d.colTile, innerTile |-> d.innerTile,
         activeA |-> [row |-> getTileRange(d.rowTile, M), col |-> getTileRange(d.innerTile, N)],
         activeB |-> [row |-> getTileRange(d.innerTile, N), col |-> getTileRange(d.colTile, K)],
         activeC |-> [row |-> getTileRange(d.rowTile, M), col |-> getTileRange(d.colTile, K)],
         cTileProgress |-> cTileProgress(s),
         partialC |-> buildPartialC(A, B, 0)]

\* everything the component derives from (matrixA, matrixB, step) in a render
Render(A, B, s) ==
    LET d == DecodeStep(s)
    IN  [rowTile |-> d.rowTile, colTile |-> d.colTile, innerTile |-> d.innerTile,
         activeA |-> [row |-> getTileRange(d.rowTile, M), col |-> getTileRange(d.innerTile, N)],
         activeB |-> [row |-> getTileRange(d.innerTile, N), col |-> getTileRange(d.colTile, K)],
         activeC |-> [row |-> getTileRange(d.rowTile, M), col |-> getTileRange(d.colTile, K)],
         cTileProgress |-> cTileProgress(s),
         partialC |-> buildPartialC(A, B, s)]

(***************************************************************************)
(* The slider: <input type="range" min={0} max={TOTAL_STEPS - 1}> hands    *)
(* its value to the handler as a decimal string.                           *)
(***************************************************************************)
DigitChars == <<"0", "1", "2", "3", "4", "5", "6", "7", "8", "9">>

RECURSIVE DigitsOf(_)
DigitsOf(n) ==
    IF n < 10 THEN <<DigitChars[n + 1]>>
    ELSE Append(DigitsOf(n \div 10), DigitChars[(n % 10) + 1])

\* the decimal string of an integer, as the value of an input element
NumberToString(n) == IF n < 0 THEN <<"-">> \o DigitsOf(-n) ELSE DigitsOf(n)

DigitValue(ch) == CHOOSE d \in 0..9 : DigitChars[d + 1] = ch

RECURSIVE ParseDigits(_, _)
ParseDigits(str, acc) ==
    IF str = <<>> THEN acc
    ELSE ParseDigits(Tail(str), acc * 10 + DigitValue(Head(str)))

\* Number(string) of JavaScript on the decimal string of an integer
Number(str) ==
    IF str # <<>> /\ Head(str) = "-" THEN -ParseDigits(Tail(str), 0)
    ELSE ParseDigits(str, 0)

\* mutant: an input that does not enforce min and max (a text or number input)
RangeInputValue_unclamped(v, min, max) == NumberToString(v)

\* the value a range input holds once it is asked to take the value v: the
\* element keeps its value within its min and max attributes
RangeInputValue(v, min, max) ==
    NumberToString(IF v < min THEN min ELSE IF v > max THEN max ELSE v)

\* event.currentTarget.value of the step slider when it is asked for v
SliderValue(v) == RangeInputValue(v, 0, TOTAL_STEPS - 1)

\* the values the slider is asked for, inside and outside its range
SeekArgs == (-MaxSeekOver)..(TOTAL_STEPS - 1 + MaxSeekOver)

(***************************************************************************)
(* Input matrices of the materializer.                                     *)
(***************************************************************************)
UnitMatrix(rows, cols, i, j, v) ==
    [r \in 0..(rows - 1) |->
        [c \in 0..(cols - 1) |-> IF r = i /\ c = j THEN v ELSE 0]]

\* the seeds buildMatrix is called with: those of matrixA and matrixB (1 and
\* 3) and every other seed from 0 to MaxSeed
Seeds == (0..MaxSeed) \cup {1, 3}

SeedMatrices(rows, cols) ==
    {buildMatrix(rows, cols, seed) : seed \in Seeds}

UnitMatrices(rows, cols) ==
    {UnitMatrix(rows, cols, ij[1], ij[2], -v) :
        ij \in (0..(rows - 1)) \X (0..(cols - 1)), v \in 1..MaxEntry}

\* the pairs (A, B) drawn: generated matrices, and a single negative entry at
\* any position of one operand against a generated other operand
MatrixPairs ==
    (SeedMatrices(M, N) \X SeedMatrices(N, K))
    \cup (UnitMatrices(M, N) \X SeedMatrices(N, K))
    \cup (SeedMatrices(M, N) \X UnitMatrices(N, K))

(***************************************************************************)
(* State.                                                                  *)
(***************************************************************************)
VARIABLES
    step,       \* useState(0): the current step
    isPlaying,  \* useState(false): the autoplay flag
    intervals,  \* handles of the intervals the window has scheduled
    timer,      \* handle held by the cleanup of the autoplay effect, 0 if none
    mounted,    \* TRUE until the component is unmounted
    matrixA,    \* left operand, M x N
    matrixB,    \* right operand, N x K
    view,       \* the values derived from (matrixA, matrixB, step) by the last render
    visited,    \* history: decoded triples of a sweep over the steps, in order
    call,       \* a direct call of getTileRange or of the step decoder: arguments and outcome
    lastOp,     \* history: the operation that led to this state
    lastArg,    \* history: the value the slider was asked for by the last seek
    prev,       \* history: step and isPlaying before the last operation
    other,      \* a second mounted TiledMatmulGeminiDemo: its own step, isPlaying and interval
    im2col,     \* the Im2ColGeminiDemo component: mode, step, isPlaying and its interval
    conv,       \* the image, the kernel and what Im2ColGeminiDemo derives from them
    proxy,      \* a request to /api/flickr or /api/letterboxd: upstream answer and response
    feed,       \* a FlickrRecent or LetterboxdRecent component and its requests in flight
    cards       \* the cards of a feed component: the featured photo, the review overlay

vars == <<step, isPlaying, intervals, timer, mounted, matrixA, matrixB,
          view, visited, call, lastOp, lastArg, prev,
          other, im2col, conv, proxy, feed, cards>>

\* the variables of the other components, which the simulator never touches
collaborators == <<other, im2col, conv, proxy, feed, cards>>

Triple(v) == <<v.rowTile, v.colTile, v.innerTile>>

\* no direct call is made
IdleCall == [fn |-> "none", args |-> <<>>, done |-> FALSE, error |-> "none", value |-> <<>>]

\* no second simulator is mounted
NoOther == [step |-> 0, isPlaying |-> FALSE, intervals |-> {}, timer |-> 0, mounted |-> FALSE]

\* the other components are not on the page
IdleCollaborators ==
    /\ other = NoOther
    /\ im2col = <<>>
    /\ conv = <<>>
    /\ proxy = <<>>
    /\ feed = <<>>
    /\ cards = <<>>

(***************************************************************************)
(* The autoplay effect, useEffect(..., [isPlaying]): when isPlaying has    *)
(* changed, the cleanup of the previous run clears its interval, then a    *)
(* new interval is set if isPlaying is true.                               *)
(***************************************************************************)
\* mutant: the effect returns no cleanup, the interval is never cleared
AutoplayCleanup_leak(wasPlaying, ivs, tm) == ivs

\* the cleanup returned by the effect: () => window.clearInterval(timer); an
\* effect that ran with isPlaying false returned undefined, nothing to clear
AutoplayCleanup(wasPlaying, ivs, tm) ==
    IF wasPlaying THEN ivs \ {tm} ELSE ivs

\* mutant: the effect never calls window.setInterval
RunAutoplayEffect_noInterval(wasPlaying, nowPlaying, ivs, tm) ==
    IF wasPlaying = nowPlaying THEN [intervals |-> ivs, timer |-> tm]
    ELSE [intervals |-> AutoplayCleanup(wasPlaying, ivs, tm), timer |-> 0]

RunAutoplayEffect(wasPlaying, nowPlaying, ivs, tm) ==
    IF wasPlaying = nowPlaying THEN [intervals |-> ivs, timer |-> tm]
    ELSE LET cleaned == AutoplayCleanup(wasPlaying, ivs, tm)
         IN  IF ~nowPlaying THEN [intervals |-> cleaned, timer |-> 0]
             ELSE LET h == CHOOSE x \in 1..(Cardinality(cleaned) + 1) : x \notin cleaned
                  IN  [intervals |-> cleaned \cup {h}, timer |-> h]

\* state update of a handler, followed by the render and the effect.  The
\* handlers run in click and change events, whose render and effects are
\* flushed before the event returns, so no interval callback runs between a
\* handler and the effect that follows it.
Commit(op, arg, s, p) ==
    /\ step' = s
    /\ isPlaying' = p
    /\ LET e == RunAutoplayEffect(isPlaying, p, intervals, timer)
       IN  intervals' = e.intervals /\ timer' = e.timer
    /\ view' = Render(matrixA, matrixB, s)
    /\ lastOp' = op
    /\ lastArg' = arg
    /\ prev' = [step |-> step, isPlaying |-> isPlaying]
    /\ UNCHANGED <<mounted, matrixA, matrixB, visited, call>>
    /\ UNCHANGED collaborators

Init ==
    /\ step = 0
    /\ isPlaying = FALSE
    /\ intervals = {}
    /\ timer = 0
    /\ mounted = TRUE
    /\ matrixA = buildMatrix(M, N, 1)
    /\ matrixB = buildMatrix(N, K, 3)
    /\ view = Render(matrixA, matrixB, step)
    /\ visited = <<>>
    /\ call = IdleCall
    /\ lastOp = "init"
    /\ lastArg = 0
    /\ prev = [step |-> 0, isPlaying |-> FALSE]
    /\ IdleCollaborators

(***************************************************************************)
(* Operations of the controller.                                           *)
(***************************************************************************)
\* mutant: reset forgets setIsPlaying(false)
reset_keepsPlaying ==
    /\ mounted
    /\ Commit("reset", 0, 0, isPlaying)

reset ==
    /\ mounted
    /\ Commit("reset", 0, 0, FALSE)

\* mutant: the updater is (prev - 1) % TOTAL_STEPS
prevStep_negative ==
    /\ mounted
    /\ Commit("prev", 0, JsMod(step - 1, TOTAL_STEPS), FALSE)

\* mutant: prevStep forgets setIsPlaying(false)
prevStep_keepsPlaying ==
    /\ mounted
    /\ Commit("prev", 0, JsMod(step - 1 + TOTAL_STEPS, TOTAL_STEPS), isPlaying)

prevStep ==
    /\ mounted
    /\ Commit("prev", 0, JsMod(step - 1 + TOTAL_STEPS, TOTAL_STEPS), FALSE)

\* mutant: the updater is prev + 1, without the wrap
nextStep_noWrap ==
    /\ mounted
    /\ Commit("next", 0, step + 1, FALSE)

nextStep ==
    /\ mounted
    /\ Commit("next", 0, JsMod(step + 1, TOTAL_STEPS), FALSE)

\* onClick of the Play/Pause button
togglePlay ==
    /\ mounted
    /\ Commit("toggle", 0, step, ~isPlaying)

\* mutant: the slider handler forgets setIsPlaying(false)
seek_keepsPlaying(v) ==
    /\ mounted
    /\ Commit("seek", v, Number(SliderValue(v)), isPlaying)

\* onChange of the step slider, asked for the value v
seek(v) ==
    /\ mounted
    /\ Commit("seek", v, Number(SliderValue(v)), FALSE)

Seek == \E v \in SeekArgs : seek(v)

\* mutant: the callback stops at the last step instead of wrapping
Tick_stopsAtEnd ==
    /\ \E h \in intervals : TRUE
    /\ Commit("tick", 0, IF step >= TOTAL_STEPS - 1 THEN step ELSE step + 1, isPlaying)

\* the callback of a scheduled interval fires
Tick ==
    /\ \E h \in intervals : TRUE
    /\ Commit("tick", 0, JsMod(step + 1, TOTAL_STEPS), isPlaying)

\* the component is unmounted: the cleanup of the autoplay effect runs
Unmount ==
    /\ mounted
    /\ mounted' = FALSE
    /\ intervals' = AutoplayCleanup(isPlaying, intervals, timer)
    /\ timer' = 0
    /\ lastOp' = "unmount"
    /\ lastArg' = 0
    /\ prev' = [step |-> step, isPlaying |-> isPlaying]
    /\ UNCHANGED <<step, isPlaying, matrixA, matrixB, view, visited, call>>
    /\ UNCHANGED collaborators

Next ==
    \/ reset
    \/ prevStep
    \/ nextStep
    \/ togglePlay
    \/ Seek
    \/ Tick
    \/ Unmount

Spec == Init /\ [][Next]_vars

\* window.setInterval(..., 850) calls its callback again and again for as long
\* as the interval is scheduled: a tick that stays possible eventually fires
SpecFair == Spec /\ WF_vars(Tick)

(***************************************************************************)
(* Two simulators mounted on one page.  The state of the second one is the *)
(* record other: each instance calls useState and useEffect for itself,    *)
(* and the module has no mutable binding outside the component function.   *)
(***************************************************************************)
\* mutant: step is a binding of the module, shared by the instances
OtherCommit_shared(op, s, p) ==
    /\ other.mounted \/ op = "otherTick"
    /\ LET e == RunAutoplayEffect(other.isPlaying, p, other.intervals, other.timer)
       IN  other' = [other EXCEPT !.step = s, !.isPlaying = p,
                                  !.intervals = e.intervals, !.timer = e.timer]
    /\ step' = s
    /\ lastOp' = op
    /\ UNCHANGED <<isPlaying, intervals, timer, mounted, matrixA, matrixB, view,
                   visited, call, lastArg, prev, im2col, conv, proxy, feed, cards>>

\* state update of a handler of the second instance, its render and effect
OtherCommit(op, s, p) ==
    /\ other.mounted \/ op = "otherTick"
    /\ LET e == RunAutoplayEffect(other.isPlaying, p, other.intervals, other.timer)
       IN  other' = [other EXCEPT !.step = s, !.isPlaying = p,
                                  !.intervals = e.intervals, !.timer = e.timer]
    /\ lastOp' = op
    /\ UNCHANGED <<step, isPlaying, intervals, timer, mounted, matrixA, matrixB, view,
                   visited, call, lastArg, prev, im2col, conv, proxy, feed, cards>>

InitTwo ==
    /\ step = 0
    /\ isPlaying = FALSE
    /\ intervals = {}
    /\ timer = 0
    /\ mounted = TRUE
    /\ matrixA = buildMatrix(M, N, 1)
    /\ matrixB = buildMatrix(N, K, 3)
    /\ view = Render(matrixA, matrixB, step)
    /\ visited = <<>>
    /\ call = IdleCall
    /\ lastOp = "init"
    /\ lastArg = 0
    /\ prev = [step |-> 0, isPlaying |-> FALSE]
    /\ other = [NoOther EXCEPT !.mounted = TRUE]
    /\ im2col = <<>>
    /\ conv = <<>>
    /\ proxy = <<>>
    /\ feed = <<>>
    /\ cards = <<>>

otherReset == OtherCommit("otherReset", 0, FALSE)

otherPrevStep == OtherCommit("otherPrev", JsMod(other.step - 1 + TOTAL_STEPS, TOTAL_STEPS), FALSE)

otherNextStep == OtherCommit("otherNext", JsMod(other.step + 1, TOTAL_STEPS), FALSE)

otherTogglePlay == OtherCommit("otherToggle", other.step, ~other.isPlaying)

otherSeek == \E v \in SeekArgs : OtherCommit("otherSeek", Number(SliderValue(v)), FALSE)

otherTick ==
    /\ \E h \in other.intervals : TRUE
    /\ OtherCommit("otherTick", JsMod(other.step + 1, TOTAL_STEPS), other.isPlaying)

otherUnmount ==
    /\ other.mounted
    /\ other' = [other EXCEPT !.mounted = FALSE,
                              !.intervals = AutoplayCleanup(other.isPlaying, other.intervals,
                                                            other.timer),
                              !.timer = 0]
    /\ lastOp' = "otherUnmount"
    /\ UNCHANGED <<step, isPlaying, intervals, timer, mounted, matrixA, matrixB, view,
                   visited, call, lastArg, prev, im2col, conv, proxy, feed, cards>>

\* every operation of both instances, but for the slider of the first one,
\* whose handler is exercised in Spec and shares Commit with the others
NextTwo ==
    \/ reset
    \/ prevStep
    \/ nextStep
    \/ togglePlay
    \/ Tick
    \/ Unmount
    \/ otherReset
    \/ otherPrevStep
    \/ otherNextStep
    \/ otherTogglePlay
    \/ otherSeek
    \/ otherTick
    \/ otherUnmount

SpecTwo == InitTwo /\ [][NextTwo]_vars

(***************************************************************************)
(* The materializer over drawn matrices: the steps 0 .. TOTAL_STEPS - 1    *)
(* are rendered in order.                                                  *)
(***************************************************************************)
InitMat ==
    /\ step = 0
    /\ isPlaying = FALSE
    /\ intervals = {}
    /\ timer = 0
    /\ mounted = TRUE
    /\ \E ab \in MatrixPairs : matrixA = ab[1] /\ matrixB = ab[2]
    /\ view = Render(matrixA, matrixB, step)
    /\ visited = <<Triple(view)>>
    /\ call = IdleCall
    /\ lastOp = "sweep"
    /\ lastArg = 0
    /\ prev = [step |-> 0, isPlaying |-> FALSE]
    /\ IdleCollaborators

SweepStep ==
    /\ step < TOTAL_STEPS - 1
    /\ step' = step + 1
    /\ view' = Render(matrixA, matrixB, step')
    /\ visited' = Append(visited, Triple(view'))
    /\ prev' = [step |-> step, isPlaying |-> isPlaying]
    /\ UNCHANGED <<isPlaying, intervals, timer, mounted, matrixA, matrixB,
                   call, lastOp, lastArg>>
    /\ UNCHANGED collaborators

NextMat == SweepStep

SpecMat == InitMat /\ [][NextMat]_vars

(***************************************************************************)
(* getTileRange and the step decoder called directly, with arguments in    *)
(* and out of their valid ranges.  Neither has a throw statement: a call   *)
(* always returns a value and its error stays "none".                      *)
(***************************************************************************)
TileIndexArgs == (-MaxTileOver)..(MathCeilDiv(MaxExtent, TILE_SIZE) - 1 + MaxTileOver)

StepArgs == (-MaxStepOver)..(TOTAL_STEPS - 1 + MaxStepOver)

\* configurations (M, N, K, TILE_SIZE) of positive integers
ConfigArgs == (1..MaxConfig) \X (1..MaxConfig) \X (1..MaxConfig) \X (1..MaxConfig)

PendingCalls ==
    {[IdleCall EXCEPT !.fn = "getTileRange", !.args = <<t, e>>] :
        t \in TileIndexArgs, e \in 1..MaxExtent}
    \cup {[IdleCall EXCEPT !.fn = "decode", !.args = <<s>>] : s \in StepArgs}
    \cup {[IdleCall EXCEPT !.fn = "derive", !.args = c] : c \in ConfigArgs}

InitFn ==
    /\ step = 0
    /\ isPlaying = FALSE
    /\ intervals = {}
    /\ timer = 0
    /\ mounted = TRUE
    /\ matrixA = buildMatrix(M, N, 1)
    /\ matrixB = buildMatrix(N, K, 3)
    /\ view = Render(matrixA, matrixB, step)
    /\ visited = <<>>
    /\ call \in PendingCalls
    /\ lastOp = "call"
    /\ lastArg = 0
    /\ prev = [step |-> 0, isPlaying |-> FALSE]
    /\ IdleCollaborators

CallGetTileRange ==
    /\ call.fn = "getTileRange"
    /\ ~call.done
    /\ call' = [call EXCEPT !.done = TRUE,
                            !.value = getTileRange(call.args[1], call.args[2])]
    /\ UNCHANGED <<step, isPlaying, intervals, timer, mounted, matrixA, matrixB,
                   view, visited, lastOp, lastArg, prev>>
    /\ UNCHANGED collaborators

CallDecodeStep ==
    /\ call.fn = "decode"
    /\ ~call.done
    /\ call' = [call EXCEPT !.done = TRUE,
                            !.value = Triple(DecodeStep(call.args[1]))]
    /\ UNCHANGED <<step, isPlaying, intervals, timer, mounted, matrixA, matrixB,
                   view, visited, lastOp, lastArg, prev>>
    /\ UNCHANGED collaborators

CallDerivedConstants ==
    /\ call.fn = "derive"
    /\ ~call.done
    /\ call' = [call EXCEPT !.done = TRUE,
                            !.value = DerivedConstants(call.args[1], call.args[2],
                                                       call.args[3], call.args[4])]
    /\ UNCHANGED <<step, isPlaying, intervals, timer, mounted, matrixA, matrixB,
                   view, visited, lastOp, lastArg, prev>>
    /\ UNCHANGED collaborators

NextFn ==
    \/ CallGetTileRange
    \/ CallDecodeStep
    \/ CallDerivedConstants

SpecFn == InitFn /\ [][NextFn]_vars

(***************************************************************************)
(* The im2col visualizer (Im2ColGeminiDemo).  Its TOTAL_STEPS, step,       *)
(* isPlaying and reset are other bindings than those of the tiled          *)
(* simulator: TOTAL_STEPS is IM2COL_TOTAL_STEPS here, reset is resetIm2col *)
(* and the state is the record im2col.                                     *)
(***************************************************************************)
IMAGE_SIZE == 5
KERNEL_SIZE == 2
KERNEL_VECTOR_SIZE == KERNEL_SIZE * KERNEL_SIZE
OUTPUT_SIZE == IMAGE_SIZE - KERNEL_SIZE + 1
IM2COL_TOTAL_STEPS == OUTPUT_SIZE * OUTPUT_SIZE

\* values handleSlider is called with
SliderArgs == (-MaxSeekOver)..(IM2COL_TOTAL_STEPS - 1 + MaxSeekOver)

\* useEffect(..., [isPlaying]) of Im2ColGeminiDemo: an effect that ran with
\* isPlaying true returned () => window.clearInterval(timer); the effect
\* sets an interval when isPlaying is true and returns undefined otherwise
Im2colAutoplayEffect(wasPlaying, nowPlaying, ivs, tm) ==
    IF wasPlaying = nowPlaying THEN [intervals |-> ivs, timer |-> tm]
    ELSE LET cleaned == IF wasPlaying THEN ivs \ {tm} ELSE ivs
         IN  IF ~nowPlaying THEN [intervals |-> cleaned, timer |-> 0]
             ELSE LET h == CHOOSE x \in 1..(Cardinality(cleaned) + 1) : x \notin cleaned
                  IN  [intervals |-> cleaned \cup {h}, timer |-> h]

\* state update of a handler of Im2ColGeminiDemo, its render and its effect
Im2colCommit(op, arg, m, s, p) ==
    /\ LET e == Im2colAutoplayEffect(im2col.isPlaying, p, im2col.intervals, im2col.timer)
       IN  im2col' = [mode |-> m, step |-> s, isPlaying |-> p,
                      intervals |-> e.intervals, timer |-> e.timer, mounted |-> im2col.mounted,
                      lastOp |-> op, lastArg |-> arg,
                      prev |-> [mode |-> im2col.mode, step |-> im2col.step,
                                isPlaying |-> im2col.isPlaying]]
    /\ UNCHANGED <<step, isPlaying, intervals, timer, mounted, matrixA, matrixB, view,
                   visited, call, lastOp, lastArg, prev, other, conv, proxy, feed, cards>>

InitIm2col ==
    /\ step = 0
    /\ isPlaying = FALSE
    /\ intervals = {}
    /\ timer = 0
    /\ mounted = FALSE
    /\ matrixA = buildMatrix(M, N, 1)
    /\ matrixB = buildMatrix(N, K, 3)
    /\ view = Render(matrixA, matrixB, step)
    /\ visited = <<>>
    /\ call = IdleCall
    /\ lastOp = "init"
    /\ lastArg = 0
    /\ prev = [step |-> 0, isPlaying |-> FALSE]
    /\ other = NoOther
    /\ im2col = [mode |-> "conv", step |-> 0, isPlaying |-> FALSE,
                 intervals |-> {}, timer |-> 0, mounted |-> TRUE,
                 lastOp |-> "init", lastArg |-> 0,
                 prev |-> [mode |-> "conv", step |-> 0, isPlaying |-> FALSE]]
    /\ conv = <<>>
    /\ proxy = <<>>
    /\ feed = <<>>
    /\ cards = <<>>

\* reset of Im2ColGeminiDemo
resetIm2col ==
    /\ im2col.mounted
    /\ Im2colCommit("reset", 0, im2col.mode, 0, FALSE)

\* mutant: the mode is set without the reset
switchMode_noReset(nextMode) ==
    /\ im2col.mounted
    /\ Im2colCommit("switchMode", nextMode, nextMode, im2col.step, im2col.isPlaying)

\* switchMode(nextMode): setMode(nextMode), then reset(), which is
\* setIsPlaying(false) and setStep(0)
switchMode(nextMode) ==
    /\ im2col.mounted
    /\ Im2colCommit("switchMode", nextMode, nextMode, 0, FALSE)

SwitchMode == \E nextMode \in {"conv", "im2col"} : switchMode(nextMode)

stepOnce ==
    /\ im2col.mounted
    /\ Im2colCommit("stepOnce", 0, im2col.mode,
                    IF im2col.step + 1 >= IM2COL_TOTAL_STEPS THEN 0 ELSE im2col.step + 1,
                    FALSE)

\* mutant: the handler stores the value as it comes
handleSlider_unclamped(value) ==
    /\ im2col.mounted
    /\ Im2colCommit("handleSlider", value, im2col.mode, value, FALSE)

handleSlider(value) ==
    /\ im2col.mounted
    /\ Im2colCommit("handleSlider", value, im2col.mode,
                    MathMax(0, MathMin(IM2COL_TOTAL_STEPS - 1, value)), FALSE)

HandleSlider == \E value \in SliderArgs : handleSlider(value)

\* onClick of the Play/Pause button: setIsPlaying(prev => !prev)
togglePlayIm2col ==
    /\ im2col.mounted
    /\ Im2colCommit("toggle", 0, im2col.mode, im2col.step, ~im2col.isPlaying)

\* mutant: the callback wraps to step 0 and keeps playing
tickIm2col_wraps ==
    /\ \E h \in im2col.intervals : TRUE
    /\ Im2colCommit("tick", 0, im2col.mode, (im2col.step + 1) % IM2COL_TOTAL_STEPS,
                    im2col.isPlaying)

\* the callback of the scheduled interval fires: at the last step it calls
\* setIsPlaying(false) and keeps the step, otherwise it adds one
tickIm2col ==
    /\ \E h \in im2col.intervals : TRUE
    /\ IF im2col.step >= IM2COL_TOTAL_STEPS - 1
       THEN Im2colCommit("tick", 0, im2col.mode, im2col.step, FALSE)
       ELSE Im2colCommit("tick", 0, im2col.mode, im2col.step + 1, im2col.isPlaying)

\* the component is unmounted: the cleanup of the autoplay effect runs
unmountIm2col ==
    /\ im2col.mounted
    /\ im2col' = [im2col EXCEPT
                    !.mounted = FALSE,
                    !.intervals = IF im2col.isPlaying THEN im2col.intervals \ {im2col.timer}
                                  ELSE im2col.intervals,
                    !.timer = 0,
                    !.lastOp = "unmount",
                    !.prev = [mode |-> im2col.mode, step |-> im2col.step,
                              isPlaying |-> im2col.isPlaying]]
    /\ UNCHANGED <<step, isPlaying, intervals, timer, mounted, matrixA, matrixB, view,
                   visited, call, lastOp, lastArg, prev, other, conv, proxy, feed, cards>>

NextIm2col ==
    \/ resetIm2col
    \/ SwitchMode
    \/ stepOnce
    \/ HandleSlider
    \/ togglePlayIm2col
    \/ tickIm2col
    \/ unmountIm2col

SpecIm2col == InitIm2col /\ [][NextIm2col]_vars

\* window.setInterval(..., 420) keeps calling its callback while scheduled
SpecIm2colFair == SpecIm2col /\ WF_vars(tickIm2col)

(***************************************************************************)
(* What Im2ColGeminiDemo derives from its image and kernel.  Images and    *)
(* kernels are functions over 0-based indices, image[y][x]; the rows of    *)
(* the im2col matrix, the flattened kernel and the results are sequences,  *)
(* so that element i of an array of the source is element i + 1 here.      *)
(***************************************************************************)
buildImage(size) ==
    [y \in 0..(size - 1) |-> [x \in 0..(size - 1) |-> (x + y) % 10]]

buildKernel(size) ==
    [y \in 0..(size - 1) |-> [x \in 0..(size - 1) |-> (x * y + 1) % 5]]

\* kernel.flat()
RECURSIVE Flat(_, _)
Flat(kernel, y) ==
    IF y >= KERNEL_SIZE THEN <<>>
    ELSE [j \in 1..KERNEL_SIZE |-> kernel[y][j - 1]] \o Flat(kernel, y + 1)

\* mutant: the patch is read transposed, image[y + kx][x + ky]
RECURSIVE PatchLoop_transposed(_, _, _, _, _, _)
PatchLoop_transposed(image, y, x, ky, kx, row) ==
    IF ky >= KERNEL_SIZE THEN row
    ELSE IF kx >= KERNEL_SIZE THEN PatchLoop_transposed(image, y, x, ky + 1, 0, row)
    ELSE PatchLoop_transposed(image, y, x, ky, kx + 1, Append(row, image[y + kx][x + ky]))

\* the loops over ky and kx of buildIm2Col: row.push(image[y + ky][x + kx])
RECURSIVE PatchLoop(_, _, _, _, _, _)
PatchLoop(image, y, x, ky, kx, row) ==
    IF ky >= KERNEL_SIZE THEN row
    ELSE IF kx >= KERNEL_SIZE THEN PatchLoop(image, y, x, ky + 1, 0, row)
    ELSE PatchLoop(image, y, x, ky, kx + 1, Append(row, image[y + ky][x + kx]))

\* the loops over y and x of buildIm2Col: rows.push(row)
RECURSIVE WindowLoop(_, _, _, _)
WindowLoop(image, y, x, rows) ==
    IF y > IMAGE_SIZE - KERNEL_SIZE THEN rows
    ELSE IF x > IMAGE_SIZE - KERNEL_SIZE THEN WindowLoop(image, y + 1, 0, rows)
    ELSE WindowLoop(image, y, x + 1, Append(rows, PatchLoop(image, y, x, 0, 0, <<>>)))

buildIm2Col(image) == WindowLoop(image, 0, 0, <<>>)

\* the loop of dot over the indices of row, from sum
RECURSIVE DotLoop(_, _, _, _)
DotLoop(row, col, i, sum) ==
    IF i > Len(row) THEN sum
    ELSE DotLoop(row, col, i + 1, sum + row[i] * col[i])

dot(row, col) == DotLoop(row, col, 1, 0)

\* x ?? fallback for an array read: the element, or the fallback when the
\* index is outside the array
ElementOr(arr, i, fallback) == IF i + 1 \in DOMAIN arr THEN arr[i + 1] ELSE fallback

\* what a render of Im2ColGeminiDemo derives from image, kernel and step
RenderConv(image, kernel, s) ==
    LET kernelVector == Flat(kernel, 0)
        im2colRows == buildIm2Col(image)
        results == [i \in 1..Len(im2colRows) |-> dot(im2colRows[i], kernelVector)]
    IN  [image |-> image, kernel |-> kernel, step |-> s,
         kernelVector |-> kernelVector, im2colRows |-> im2colRows, results |-> results,
         currentX |-> s % OUTPUT_SIZE,
         currentY |-> MathFloorDiv(s, OUTPUT_SIZE),
         currentResult |-> ElementOr(results, s, 0),
         activePatch |-> ElementOr(im2colRows, s, <<>>)]

\* a size x size array with v at (y0, x0) and 0 elsewhere
UnitImage(size, y0, x0, v) ==
    [y \in 0..(size - 1) |-> [x \in 0..(size - 1) |-> IF y = y0 /\ x = x0 THEN v ELSE 0]]

Images ==
    {buildImage(IMAGE_SIZE)}
    \cup {UnitImage(IMAGE_SIZE, y0, x0, v) :
            y0 \in 0..(IMAGE_SIZE - 1), x0 \in 0..(IMAGE_SIZE - 1), v \in 1..MaxPixel}

Kernels ==
    {buildKernel(KERNEL_SIZE)}
    \cup {UnitImage(KERNEL_SIZE, y0, x0, v) :
            y0 \in 0..(KERNEL_SIZE - 1), x0 \in 0..(KERNEL_SIZE - 1), v \in 1..MaxPixel}

InitConv ==
    /\ step = 0
    /\ isPlaying = FALSE
    /\ intervals = {}
    /\ timer = 0
    /\ mounted = FALSE
    /\ matrixA = buildMatrix(M, N, 1)
    /\ matrixB = buildMatrix(N, K, 3)
    /\ view = Render(matrixA, matrixB, step)
    /\ visited = <<>>
    /\ call = IdleCall
    /\ lastOp = "init"
    /\ lastArg = 0
    /\ prev = [step |-> 0, isPlaying |-> FALSE]
    /\ other = NoOther
    /\ im2col = <<>>
    /\ \E image \in Images, kernel \in Kernels : conv = RenderConv(image, kernel, 0)
    /\ proxy = <<>>
    /\ feed = <<>>
    /\ cards = <<>>

\* the visualizer moves to the next step and renders
StepConv ==
    /\ conv.step < IM2COL_TOTAL_STEPS - 1
    /\ conv' = RenderConv(conv.image, conv.kernel, conv.step + 1)
    /\ UNCHANGED <<step, isPlaying, intervals, timer, mounted, matrixA, matrixB, view,
                   visited, call, lastOp, lastArg, prev, other, im2col, proxy, feed, cards>>

NextConv == StepConv

SpecConv == InitConv /\ [][NextConv]_vars

(***************************************************************************)
(* The feed proxies: onRequestGet of /api/flickr and of /api/letterboxd.   *)
(* A JavaScript value is a record with a type; an object carries its own   *)
(* properties in fields.  Reading a property of null or undefined throws a *)
(* TypeError, and so does calling a method the value does not have.        *)
(***************************************************************************)
Undefined == [type |-> "undefined"]
JNull == [type |-> "null"]
JNum(n) == [type |-> "number", value |-> n]
JStr(str) == [type |-> "string", value |-> str]
JArr(elems) == [type |-> "array", elems |-> elems]
JObj(fields) == [type |-> "object", fields |-> fields]

\* v == null (null or undefined), the test of ?? and ?.
Nullish(v) == v.type \in {"null", "undefined"}

\* v.key for a v that is not nullish
Get(v, key) ==
    IF v.type = "object" /\ key \in DOMAIN v.fields THEN v.fields[key] ELSE Undefined

\* String.prototype.trim on the strings of the model
Trim(str) ==
    CASE str = " " -> ""
      [] str = " /photos/1 " -> "/photos/1"
      [] OTHER -> str

\* a string that is not a JavaScript numeric literal gives NaN
IsDecimal(str) ==
    LET digits == IF str # <<>> /\ Head(str) = "-" THEN Tail(str) ELSE str
    IN  /\ digits # <<>>
        /\ \A i \in 1..Len(digits) : \E d \in 1..10 : DigitChars[d] = digits[i]

\* Number(url.searchParams.get('limit') ?? '10'): the parameter is absent
\* (null) or a string; Number('') is 0
RequestedLimit(param) ==
    IF ~param.present THEN [finite |-> TRUE, value |-> Number(<<"1", "0">>)]
    ELSE IF param.value = <<>> THEN [finite |-> TRUE, value |-> 0]
    ELSE IF IsDecimal(param.value) THEN [finite |-> TRUE, value |-> Number(param.value)]
    ELSE [finite |-> FALSE, value |-> 0]

\* mutant: the requested limit is not capped
EffectiveLimit_uncapped(param, cap) ==
    LET requestedLimit == RequestedLimit(param)
    IN  IF requestedLimit.finite THEN MathMax(1, requestedLimit.value) ELSE 10

\* Number.isFinite(requestedLimit) ? Math.max(1, Math.min(requestedLimit, cap)) : 10
EffectiveLimit(param, cap) ==
    LET requestedLimit == RequestedLimit(param)
    IN  IF requestedLimit.finite THEN MathMax(1, MathMin(requestedLimit.value, cap)) ELSE 10

\* array.slice(0, limit)
Slice(arr, limit) == SubSeq(arr, 1, MathMin(Len(arr), limit))

\* what a call of onRequestGet ends in: a Response, or an exception that
\* leaves the handler
Answer(status, cacheControl, keys, items, error) ==
    [kind |-> "response", status |-> status, cacheControl |-> cacheControl,
     keys |-> keys, items |-> items, error |-> error]

Throws(name) ==
    [kind |-> "throws", status |-> 0, cacheControl |-> "", keys |-> {},
     items |-> <<>>, error |-> name]

\* the callback of feed.items.map in /api/flickr, for an item that can be
\* read: null when the media URL or the link is missing or blank.  The
\* other fields of a FlickrItem (dates, tags, dimensions, orientation) are
\* computed per item and neither drop nor add an item.
MapFlickrItem(item) ==
    LET media == Get(item, "media")
        m == IF Nullish(media) THEN Undefined ELSE Get(media, "m")
        mediaUrl == IF Nullish(m) THEN "" ELSE Trim(m.value)
        rawLink == Get(item, "link")
        link == IF Nullish(rawLink) THEN "" ELSE Trim(rawLink.value)
        rawTitle == Get(item, "title")
        title == IF Nullish(rawTitle) THEN "" ELSE Trim(rawTitle.value)
    IN  IF mediaUrl = "" \/ link = "" THEN JNull
        ELSE JObj([title |-> IF title = "" THEN "Untitled" ELSE title,
                   link |-> link, imageUrl |-> mediaUrl])

\* .filter(item => item !== null)
RECURSIVE FilterNotNull(_)
FilterNotNull(arr) ==
    IF arr = <<>> THEN <<>>
    ELSE IF Head(arr).type = "null" THEN FilterNotNull(Tail(arr))
    ELSE <<Head(arr)>> \o FilterNotNull(Tail(arr))

\* onRequestGet of /api/flickr, for the limit parameter and the upstream
\* answer: feed.items, .map and item.media throw a TypeError on a feed that
\* is null, on items that is no array and on an item that is null
flickrOnRequestGet(param, upstream) ==
    LET limit == EffectiveLimit(param, 24)
    IN  IF ~upstream.ok
        THEN Answer(502, "no-store", {"error"}, <<>>, "Failed to fetch Flickr feed.")
        ELSE IF ~upstream.json
        THEN Answer(502, "no-store", {"error"}, <<>>, "Invalid Flickr feed response.")
        ELSE LET feedRaw == upstream.value
             IN  IF Nullish(feedRaw) THEN Throws("TypeError")
                 ELSE LET rawItems == Get(feedRaw, "items")
                          elems == IF Nullish(rawItems) THEN <<>> ELSE rawItems.elems
                      IN  IF ~Nullish(rawItems) /\ rawItems.type # "array"
                          THEN Throws("TypeError")
                          ELSE IF \E i \in 1..Len(elems) : Nullish(elems[i])
                          THEN Throws("TypeError")
                          ELSE LET mapped == [i \in 1..Len(elems) |-> MapFlickrItem(elems[i])]
                               IN  Answer(200, "no-store, no-cache, must-revalidate",
                                          {"profile", "updatedAt", "items"},
                                          Slice(FilterNotNull(mapped), limit), "none")

\* parseLetterboxdRss on a text whose <item> blocks are the given ones: a
\* block without a non-empty letterboxd:filmTitle is skipped, a missing
\* link is replaced by the profile URL; text that holds no block gives []
RECURSIVE parseLetterboxdRss(_)
parseLetterboxdRss(blocks) ==
    IF blocks = <<>> THEN <<>>
    ELSE LET item == Head(blocks)
         IN  IF item.filmTitle = "" THEN parseLetterboxdRss(Tail(blocks))
             ELSE <<JObj([filmTitle |-> item.filmTitle,
                          link |-> IF item.link = "" THEN "https://letterboxd.com/xiphosen/"
                                   ELSE item.link])>>
                  \o parseLetterboxdRss(Tail(blocks))

\* onRequestGet of /api/letterboxd
letterboxdOnRequestGet(param, upstream) ==
    LET limit == EffectiveLimit(param, 20)
    IN  IF ~upstream.ok
        THEN Answer(502, "no-store", {"error"}, <<>>, "Failed to fetch Letterboxd feed.")
        ELSE Answer(200, "public, max-age=300, s-maxage=900, stale-while-revalidate=86400",
                    {"profile", "updatedAt", "items"},
                    Slice(parseLetterboxdRss(upstream.blocks), limit), "none")

\* an object with the properties of the given set of <<key, value>> pairs
ObjectOf(pairs) ==
    JObj([k \in {kv[1] : kv \in pairs} |-> (CHOOSE kv \in pairs : kv[1] = k)[2]])

\* entries of the items array of an upstream Flickr feed: null, or an object
\* whose media.m and link are absent, blank or set
RawFlickrItems ==
    {JNull}
    \cup {ObjectOf(m \cup l) :
            m \in {{}, {<<"media", ObjectOf({})>>},
                       {<<"media", ObjectOf({<<"m", JStr(" ")>>})>>},
                       {<<"media", ObjectOf({<<"m", JStr("https://live.staticflickr.com/1_m.jpg")>>})>>}},
            l \in {{}, {<<"link", JStr(" /photos/1 ")>>}}}

\* sequences of up to n elements of S
RECURSIVE SeqsUpTo(_, _)
SeqsUpTo(S, n) ==
    IF n = 0 THEN {<<>>}
    ELSE LET shorter == SeqsUpTo(S, n - 1)
         IN  shorter \cup {Append(q, x) : q \in shorter, x \in S}

\* what the body of an upstream Flickr answer parses to
FlickrFeeds ==
    {JNull, JNum(0)}
    \cup {ObjectOf(t \cup i) :
            t \in {{}, {<<"title", JStr("photostream")>>, <<"modified", JStr("2026-01-01")>>}},
            i \in {{}, {<<"items", JNum(0)>>}}
                   \cup {{<<"items", JArr(q)>>} : q \in SeqsUpTo(RawFlickrItems, MaxFeedItems)}}

\* lengths of the long upstream feeds: more entries than MaxFeedItems, up to
\* MaxOverCap more than the larger of the two caps
LongFeedLengths == (MaxFeedItems + 1)..(24 + MaxOverCap)

\* upstream Flickr feeds of many entries that all have a media URL and a link
LongFlickrFeeds ==
    {ObjectOf({<<"items",
                 JArr([i \in 1..n |->
                         ObjectOf({<<"media", ObjectOf({<<"m", JStr("https://live.staticflickr.com/1_m.jpg")>>})>>,
                                   <<"link", JStr(" /photos/1 ")>>})])>>}) :
        n \in LongFeedLengths}

\* upstream answers to /api/flickr: not ok, ok with a body that is no JSON,
\* ok with a JSON body
FlickrUpstreams ==
    {[ok |-> FALSE, json |-> FALSE, value |-> Undefined, blocks |-> <<>>]}
    \cup {[ok |-> TRUE, json |-> FALSE, value |-> Undefined, blocks |-> <<>>]}
    \cup {[ok |-> TRUE, json |-> TRUE, value |-> v, blocks |-> <<>>] :
             v \in FlickrFeeds \cup LongFlickrFeeds}

\* <item> blocks of an upstream Letterboxd RSS text
RssBlocks == [filmTitle : {"", "Heat"}, link : {"", "https://letterboxd.com/xiphosen/film/heat/"}]

\* upstream RSS texts of many <item> blocks that all have a film title
LongRssTexts ==
    {[i \in 1..n |-> [filmTitle |-> "Heat",
                      link |-> "https://letterboxd.com/xiphosen/film/heat/"]] :
        n \in LongFeedLengths}

\* upstream answers to /api/letterboxd: not ok, or ok with any text
LetterboxdUpstreams ==
    {[ok |-> o, json |-> FALSE, value |-> Undefined, blocks |-> q] :
        o \in BOOLEAN, q \in SeqsUpTo(RssBlocks, MaxFeedItems)}
    \cup {[ok |-> TRUE, json |-> FALSE, value |-> Undefined, blocks |-> q] :
             q \in LongRssTexts}

\* values of the limit query parameter: absent, empty, not a number
\* (Number('x') is NaN, Number('Infinity') is not finite), or a decimal
\* integer from -1 to MaxOverCap more than the larger of the two caps
LimitParams ==
    {[present |-> FALSE, value |-> <<>>], [present |-> TRUE, value |-> <<>>],
     [present |-> TRUE, value |-> <<"x">>],
     [present |-> TRUE, value |-> <<"I", "n", "f", "i", "n", "i", "t", "y">>]}
    \cup {[present |-> TRUE, value |-> NumberToString(n)] : n \in (-1)..(24 + MaxOverCap)}

InitProxy ==
    /\ step = 0
    /\ isPlaying = FALSE
    /\ intervals = {}
    /\ timer = 0
    /\ mounted = FALSE
    /\ matrixA = buildMatrix(M, N, 1)
    /\ matrixB = buildMatrix(N, K, 3)
    /\ view = Render(matrixA, matrixB, step)
    /\ visited = <<>>
    /\ call = IdleCall
    /\ lastOp = "init"
    /\ lastArg = 0
    /\ prev = [step |-> 0, isPlaying |-> FALSE]
    /\ other = NoOther
    /\ im2col = <<>>
    /\ conv = <<>>
    /\ \/ \E param \in LimitParams, upstream \in FlickrUpstreams :
             proxy = [endpoint |-> "flickr", limit |-> param, upstream |-> upstream,
                      done |-> FALSE, outcome |-> Throws("none")]
       \/ \E param \in LimitParams, upstream \in LetterboxdUpstreams :
             proxy = [endpoint |-> "letterboxd", limit |-> param, upstream |-> upstream,
                      done |-> FALSE, outcome |-> Throws("none")]
    /\ feed = <<>>
    /\ cards = <<>>

\* a GET of /api/flickr is served
ServeFlickr ==
    /\ proxy.endpoint = "flickr"
    /\ ~proxy.done
    /\ proxy' = [proxy EXCEPT !.done = TRUE,
                              !.outcome = flickrOnRequestGet(proxy.limit, proxy.upstream)]
    /\ UNCHANGED <<step, isPlaying, intervals, timer, mounted, matrixA, matrixB, view,
                   visited, call, lastOp, lastArg, prev, other, im2col, conv, feed, cards>>

\* a GET of /api/letterboxd is served
ServeLetterboxd ==
    /\ proxy.endpoint = "letterboxd"
    /\ ~proxy.done
    /\ proxy' = [proxy EXCEPT !.done = TRUE,
                              !.outcome = letterboxdOnRequestGet(proxy.limit, proxy.upstream)]
    /\ UNCHANGED <<step, isPlaying, intervals, timer, mounted, matrixA, matrixB, view,
                   visited, call, lastOp, lastArg, prev, other, im2col, conv, feed, cards>>

NextProxy ==
    \/ ServeFlickr
    \/ ServeLetterboxd

SpecProxy == InitProxy /\ [][NextProxy]_vars

(***************************************************************************)
(* The feed components FlickrRecent and LetterboxdRecent: the load effect, *)
(* useEffect(..., [requestedLimit]).  Each run of the effect has its own   *)
(* closure variable mounted, its own load and its own polling interval;    *)
(* runs are numbered, feed.effect is the current one, feed.live holds the  *)
(* runs whose mounted is true and feed.intervals the runs whose interval   *)
(* is scheduled.  The callbacks of a settled request run one after the     *)
(* other as promise reactions, with no event, render or effect in between. *)
(***************************************************************************)
FeedComponents == {"FlickrRecent", "LetterboxdRecent"}

\* columns the ResizeObserver callback computes for the widths of the model
ColumnChoices == {1, 4, 5, 12}

\* requestedLimit as each component derives it from columns
RequestedLimitOf(component, columns) ==
    IF component = "FlickrRecent"
    THEN LET wideColumns == MathMax(1, MathCeilDiv(columns, 2))
             portraitTarget == columns * 3
             wideTarget == wideColumns * 3
         IN  MathMin(36, MathMax(portraitTarget + wideTarget, 20))
    ELSE MathMin(20, MathMax(1, columns * 2))

DefaultProfileUrl == "https://flickr.com/photos/198040252@N06/"

\* how a request can end: fetch rejects; the response is not ok; its body
\* is no JSON; or it parses to null or to an object whose items and
\* profile.url are present or absent
FeedData ==
    {JNull}
    \cup {ObjectOf(i \cup u) :
            i \in {{}} \cup {{<<"items", JArr(q)>>} :
                                q \in {<<>>, <<"/a">>, <<"/b", "/a">>}},
            u \in {{}, {<<"profile", ObjectOf({<<"url", JStr("https://flickr.com/photos/me/")>>})>>}}}

FeedResponses ==
    {[kind |-> "rejected", ok |-> FALSE, status |-> 0, json |-> FALSE, data |-> Undefined],
     [kind |-> "response", ok |-> FALSE, status |-> 502, json |-> TRUE, data |-> Undefined],
     [kind |-> "response", ok |-> TRUE, status |-> 200, json |-> FALSE, data |-> Undefined]}
    \cup {[kind |-> "response", ok |-> TRUE, status |-> 200, json |-> TRUE, data |-> d] :
            d \in FeedData}

\* the state updates of the reactions .then, .then, .catch of load for a
\* settled request, before .finally: the fields items, profileUrl and error
LoadReactions(f, response) ==
    IF response.kind = "rejected"
    THEN [f EXCEPT !.error = JStr("Failed to fetch")]
    ELSE IF ~response.ok
    THEN [f EXCEPT !.error = JStr("Request failed")]
    ELSE IF ~response.json
    THEN [f EXCEPT !.error = JStr("Unexpected token")]
    ELSE IF Nullish(response.data)
    THEN [f EXCEPT !.error = JStr("Cannot read properties of null")]
    ELSE LET rawItems == Get(response.data, "items")
             profile == Get(response.data, "profile")
             url == IF Nullish(profile) THEN Undefined ELSE Get(profile, "url")
         IN  [f EXCEPT !.items = IF Nullish(rawItems) THEN <<>> ELSE rawItems.elems,
                       !.profileUrl = IF f.component # "FlickrRecent" THEN f.profileUrl
                                      ELSE IF Nullish(url) THEN DefaultProfileUrl
                                      ELSE url.value,
                       !.error = JNull]

\* what the component shows of a load
Shown(f) ==
    [items |-> f.items, profileUrl |-> f.profileUrl, isLoading |-> f.isLoading,
     error |-> f.error]

\* mutant: the reactions do not look at mounted
SettleLoad_unguarded(f, req, response) ==
    [LoadReactions(f, response) EXCEPT !.isLoading = FALSE,
                                       !.settled = f.settled \/ req.effect = f.effect]

\* mutant: the load has no .finally, isLoading is never set to false
SettleLoad_noFinally(f, req, response) ==
    IF req.effect \notin f.live THEN f
    ELSE [LoadReactions(f, response) EXCEPT !.settled = TRUE]

\* the reactions of a settled request of effect run req.effect: each
\* returns at once when the mounted of its run is false, that is when the
\* run was cleaned up; otherwise .finally sets isLoading to false
SettleLoad(f, req, response) ==
    IF req.effect \notin f.live THEN f
    ELSE [LoadReactions(f, response) EXCEPT !.isLoading = FALSE, !.settled = TRUE]

\* mutant: the effect returns no cleanup
EffectCleanup_none(f) == f

\* the cleanup of the load effect: mounted = false; clearInterval(intervalId)
EffectCleanup(f) ==
    [f EXCEPT !.live = f.live \ {f.effect}, !.intervals = f.intervals \ {f.effect}]

\* a run of the load effect: setIsLoading(true), load(), setInterval(load)
RunLoadEffect(f) ==
    LET run == f.effect + 1
    IN  [f EXCEPT !.effect = run,
                  !.isLoading = TRUE,
                  !.settled = FALSE,
                  !.live = f.live \cup {run},
                  !.inflight = f.inflight \cup
                      {[id |-> f.issued + 1, effect |-> run, limit |-> f.requestedLimit]},
                  !.issued = f.issued + 1,
                  !.intervals = f.intervals \cup {run}]

\* history of the last operation
Logged(f, before, op, req, response) ==
    [f EXCEPT !.lastOp = op, !.lastReq = req, !.lastResponse = response,
              !.prev = [shown |-> Shown(before), effect |-> before.effect,
                        mounted |-> before.mounted, intervals |-> before.intervals,
                        settled |-> before.settled]]

NoRequest == [id |-> 0, effect |-> 0, limit |-> 0]

NoResponse == [kind |-> "none", ok |-> FALSE, status |-> 0, json |-> FALSE, data |-> Undefined]

InitFeed ==
    /\ step = 0
    /\ isPlaying = FALSE
    /\ intervals = {}
    /\ timer = 0
    /\ mounted = FALSE
    /\ matrixA = buildMatrix(M, N, 1)
    /\ matrixB = buildMatrix(N, K, 3)
    /\ view = Render(matrixA, matrixB, step)
    /\ visited = <<>>
    /\ call = IdleCall
    /\ lastOp = "init"
    /\ lastArg = 0
    /\ prev = [step |-> 0, isPlaying |-> FALSE]
    /\ other = NoOther
    /\ im2col = <<>>
    /\ conv = <<>>
    /\ proxy = <<>>
    /\ cards = <<>>
    /\ \E component \in FeedComponents :
          LET first == [component |-> component, mounted |-> TRUE, columns |-> 5,
                        requestedLimit |-> RequestedLimitOf(component, 5),
                        items |-> <<>>, profileUrl |-> DefaultProfileUrl,
                        isLoading |-> TRUE, error |-> JNull,
                        effect |-> 0, settled |-> FALSE, live |-> {}, intervals |-> {},
                        inflight |-> {}, issued |-> 0,
                        lastOp |-> "mount", lastReq |-> NoRequest,
                        lastResponse |-> NoResponse, prev |-> <<>>]
          IN  feed = Logged(RunLoadEffect(first), first, "mount", NoRequest, NoResponse)

\* the ResizeObserver callback sets columns; when requestedLimit changes
\* with it, the cleanup of the last run and a new run of the effect follow
Resize ==
    /\ feed.mounted
    /\ \E columns \in ColumnChoices :
          LET limit == RequestedLimitOf(feed.component, columns)
              resized == [feed EXCEPT !.columns = columns, !.requestedLimit = limit]
          IN  /\ columns # feed.columns
              /\ limit # feed.requestedLimit => feed.effect < MaxEffects /\ feed.issued < MaxRequests
              /\ feed' = Logged(IF limit = feed.requestedLimit THEN resized
                                ELSE RunLoadEffect(EffectCleanup(resized)),
                                feed, "resize", NoRequest, NoResponse)
    /\ UNCHANGED <<step, isPlaying, intervals, timer, mounted, matrixA, matrixB, view,
                   visited, call, lastOp, lastArg, prev, other, im2col, conv, proxy, cards>>

\* a scheduled polling interval fires: load() of its run
Poll ==
    /\ feed.issued < MaxRequests
    /\ \E run \in feed.intervals :
          LET req == [id |-> feed.issued + 1, effect |-> run, limit |-> feed.requestedLimit]
          IN  feed' = Logged([feed EXCEPT !.inflight = feed.inflight \cup {req},
                                          !.issued = feed.issued + 1],
                             feed, "poll", req, NoResponse)
    /\ UNCHANGED <<step, isPlaying, intervals, timer, mounted, matrixA, matrixB, view,
                   visited, call, lastOp, lastArg, prev, other, im2col, conv, proxy, cards>>

\* a request in flight settles, in any order, with any outcome
Settle ==
    /\ \E req \in feed.inflight, response \in FeedResponses :
          feed' = Logged([SettleLoad(feed, req, response) EXCEPT
                              !.inflight = feed.inflight \ {req}],
                         feed, "settle", req, response)
    /\ UNCHANGED <<step, isPlaying, intervals, timer, mounted, matrixA, matrixB, view,
                   visited, call, lastOp, lastArg, prev, other, im2col, conv, proxy, cards>>

\* the component is unmounted: the cleanup of the last run of the effect
UnmountFeed ==
    /\ feed.mounted
    /\ feed' = Logged([EffectCleanup(feed) EXCEPT !.mounted = FALSE],
                      feed, "unmount", NoRequest, NoResponse)
    /\ UNCHANGED <<step, isPlaying, intervals, timer, mounted, matrixA, matrixB, view,
                   visited, call, lastOp, lastArg, prev, other, im2col, conv, proxy, cards>>

NextFeed ==
    \/ Resize
    \/ Poll
    \/ Settle
    \/ UnmountFeed

SpecFeed == InitFeed /\ [][NextFeed]_vars

(***************************************************************************)
(* The review overlay of LetterboxdRecent: useState(null) activeReviewLink *)
(* and the four handlers of each card.  cards.entered and cards.left are   *)
(* history: the card of the last mouseenter or focus, and the cards that   *)
(* got a mouseleave or blur since.                                         *)
(***************************************************************************)
\* the lists of items a load brings; a card is keyed by its link, so the
\* links of a list differ
ReviewItemLists ==
    {<<"/film/a/">>, <<"/film/a/", "/film/b/">>, <<"/film/c/", "/film/a/", "/film/b/">>}

\* mutant: the update ignores which card holds the overlay
ClearIfOwner_always(current, link) == JNull

\* current => (current === item.link ? null : current)
ClearIfOwner(current, link) == IF current = JStr(link) THEN JNull ELSE current

ReviewCommit(op, link, active, entered, left) ==
    /\ cards' = [cards EXCEPT !.activeReviewLink = active,
                              !.lastOp = op, !.lastArg = link,
                              !.entered = entered, !.left = left,
                              !.prev = [activeReviewLink |-> cards.activeReviewLink,
                                        items |-> cards.items]]
    /\ UNCHANGED <<step, isPlaying, intervals, timer, mounted, matrixA, matrixB, view,
                   visited, call, lastOp, lastArg, prev, other, im2col, conv, proxy, feed>>

InitReview ==
    /\ step = 0
    /\ isPlaying = FALSE
    /\ intervals = {}
    /\ timer = 0
    /\ mounted = FALSE
    /\ matrixA = buildMatrix(M, N, 1)
    /\ matrixB = buildMatrix(N, K, 3)
    /\ view = Render(matrixA, matrixB, step)
    /\ visited = <<>>
    /\ call = IdleCall
    /\ lastOp = "init"
    /\ lastArg = 0
    /\ prev = [step |-> 0, isPlaying |-> FALSE]
    /\ other = NoOther
    /\ im2col = <<>>
    /\ conv = <<>>
    /\ proxy = <<>>
    /\ feed = <<>>
    /\ cards = [component |-> "LetterboxdRecent", items |-> <<>>,
                activeReviewLink |-> JNull,
                lastOp |-> "mount", lastArg |-> "", entered |-> JNull, left |-> {},
                prev |-> [activeReviewLink |-> JNull, items |-> <<>>]]

\* a load of the current run succeeds: setItems; activeReviewLink stays
LoadReviews ==
    /\ \E items \in ReviewItemLists :
          /\ items # cards.items
          /\ cards' = [cards EXCEPT !.items = items, !.lastOp = "load", !.lastArg = "",
                                    !.prev = [activeReviewLink |-> cards.activeReviewLink,
                                              items |-> cards.items]]
    /\ UNCHANGED <<step, isPlaying, intervals, timer, mounted, matrixA, matrixB, view,
                   visited, call, lastOp, lastArg, prev, other, im2col, conv, proxy, feed>>

\* onMouseEnter of the card of item i
onMouseEnter ==
    \E i \in 1..Len(cards.items) :
        ReviewCommit("mouseenter", cards.items[i], JStr(cards.items[i]),
                     JStr(cards.items[i]), {})

\* onFocus of the card of item i
onFocus ==
    \E i \in 1..Len(cards.items) :
        ReviewCommit("focus", cards.items[i], JStr(cards.items[i]),
                     JStr(cards.items[i]), {})

\* onMouseLeave of the card of item i
onMouseLeave ==
    \E i \in 1..Len(cards.items) :
        ReviewCommit("mouseleave", cards.items[i],
                     ClearIfOwner(cards.activeReviewLink, cards.items[i]),
                     cards.entered, cards.left \cup {cards.items[i]})

\* onBlur of the card of item i
onBlur ==
    \E i \in 1..Len(cards.items) :
        ReviewCommit("blur", cards.items[i],
                     ClearIfOwner(cards.activeReviewLink, cards.items[i]),
                     cards.entered, cards.left \cup {cards.items[i]})

NextReview ==
    \/ LoadReviews
    \/ onMouseEnter
    \/ onFocus
    \/ onMouseLeave
    \/ onBlur

SpecReview == InitReview /\ [][NextReview]_vars

(***************************************************************************)
(* The featured photo of FlickrRecent: useState(null) featuredLink,        *)
(* useState(0) featuredImageIndex, the memos featuredItem and              *)
(* featuredImageCandidates and the two effects that follow them.  A URL is *)
(* a record of its stem and of the size letters between the last "_" and   *)
(* the extension, "" when the URL has no such suffix.  A handler, the      *)
(* renders and the effects it leads to are one step.                       *)
(***************************************************************************)
\* url.replace(/_([a-z0-9]{1,2})(\.[a-z0-9]+)$/i, `_${size}$2`)
toFlickrSizedUrl(url, size) ==
    IF url.suffix = "" THEN url ELSE [url EXCEPT !.suffix = size]

\* candidates.filter((url, index) => candidates.indexOf(url) === index)
RECURSIVE FirstOccurrences(_, _)
FirstOccurrences(candidates, kept) ==
    IF candidates = <<>> THEN kept
    ELSE IF \E i \in 1..Len(kept) : kept[i] = Head(candidates)
    THEN FirstOccurrences(Tail(candidates), kept)
    ELSE FirstOccurrences(Tail(candidates), Append(kept, Head(candidates)))

\* the memo featuredItem: the first item whose link is featuredLink, or null
featuredItem(items, featuredLink) ==
    IF featuredLink = JNull \/ featuredLink.value = "" THEN JNull
    ELSE IF \E i \in 1..Len(items) : items[i].link = featuredLink.value
    THEN items[CHOOSE i \in 1..Len(items) :
                   /\ items[i].link = featuredLink.value
                   /\ \A j \in 1..(i - 1) : items[j].link # featuredLink.value]
    ELSE JNull

\* the memo featuredImageCandidates
featuredImageCandidates(item) ==
    IF item = JNull THEN <<>>
    ELSE LET source == item.imageUrl
         IN  FirstOccurrences(<<toFlickrSizedUrl(source, "b"), toFlickrSizedUrl(source, "c"),
                                toFlickrSizedUrl(source, "z"), source>>, <<>>)

\* mutant: the effect never resets featuredLink
ValidFeaturedLink_keeps(items, featuredLink) == featuredLink

\* the effect of [items, featuredLink]: setFeaturedLink(null) when no item
\* has the link
ValidFeaturedLink(items, featuredLink) ==
    IF featuredLink = JNull \/ featuredLink.value = "" THEN featuredLink
    ELSE IF \E i \in 1..Len(items) : items[i].link = featuredLink.value THEN featuredLink
    ELSE JNull

\* the update of onError:
\* current => Math.min(current + 1, Math.max(0, featuredImageCandidates.length - 1))
NextImageIndex(current, candidates) ==
    MathMin(current + 1, MathMax(0, Len(candidates) - 1))

\* featuredItem?.link
LinkOf(item) == IF item = JNull THEN Undefined ELSE JStr(item.link)

\* featuredImageCandidates[featuredImageIndex] ?? featuredItem.imageUrl,
\* the src of the featured image
FeaturedSrc(item, candidates, index) ==
    IF item = JNull THEN Undefined
    ELSE IF index + 1 <= Len(candidates) THEN candidates[index + 1]
    ELSE item.imageUrl

\* what is left once the renders and effects after a state update have run:
\* the effect of [items, featuredLink] resets a featuredLink no item has,
\* and the effect of [featuredItem?.link] sets featuredImageIndex to 0 when
\* that link has changed
FeaturedCommit(op, arg, items, featuredLink, featuredImageIndex) ==
    /\ LET link == ValidFeaturedLink(items, featuredLink)
           item == featuredItem(items, link)
           candidates == featuredImageCandidates(item)
           index == IF LinkOf(item) # LinkOf(cards.featuredItem) THEN 0
                    ELSE featuredImageIndex
       IN  cards' = [component |-> "FlickrRecent", items |-> items,
                     featuredLink |-> link, featuredImageIndex |-> index,
                     featuredItem |-> item, candidates |-> candidates,
                     src |-> FeaturedSrc(item, candidates, index),
                     lastOp |-> op, lastArg |-> arg,
                     prev |-> [featuredLink |-> cards.featuredLink,
                               featuredImageIndex |-> cards.featuredImageIndex,
                               featuredItem |-> cards.featuredItem,
                               candidates |-> cards.candidates]]
    /\ UNCHANGED <<step, isPlaying, intervals, timer, mounted, matrixA, matrixB, view,
                   visited, call, lastOp, lastArg, prev, other, im2col, conv, proxy, feed>>

\* image URLs of the feed: with the size suffix _m or _b, or without one
PhotoUrls == [stem : {"https://live.staticflickr.com/1"}, suffix : {"m", "b", ""}]

\* items of the feed: /api/flickr drops an item without a link
Photos == [link : {"/photos/1/", "/photos/2/"}, imageUrl : PhotoUrls]

\* lists of items a load brings; an item is keyed by its link, so the links
\* of a list differ
PhotoLists ==
    {<<>>} \cup {<<p>> : p \in Photos}
    \cup {<<p, q>> : p \in {x \in Photos : x.link = "/photos/2/"},
                     q \in {x \in Photos : x.link = "/photos/1/"}}

InitFeatured ==
    /\ step = 0
    /\ isPlaying = FALSE
    /\ intervals = {}
    /\ timer = 0
    /\ mounted = FALSE
    /\ matrixA = buildMatrix(M, N, 1)
    /\ matrixB = buildMatrix(N, K, 3)
    /\ view = Render(matrixA, matrixB, step)
    /\ visited = <<>>
    /\ call = IdleCall
    /\ lastOp = "init"
    /\ lastArg = 0
    /\ prev = [step |-> 0, isPlaying |-> FALSE]
    /\ other = NoOther
    /\ im2col = <<>>
    /\ conv = <<>>
    /\ proxy = <<>>
    /\ feed = <<>>
    /\ cards = [component |-> "FlickrRecent", items |-> <<>>,
                featuredLink |-> JNull, featuredImageIndex |-> 0,
                featuredItem |-> JNull, candidates |-> <<>>, src |-> Undefined,
                lastOp |-> "mount", lastArg |-> "",
                prev |-> [featuredLink |-> JNull, featuredImageIndex |-> 0,
                          featuredItem |-> JNull, candidates |-> <<>>]]

\* a load of the current run succeeds: setItems(data.items ?? [])
LoadPhotos ==
    \E items \in PhotoLists :
        /\ items # cards.items
        /\ FeaturedCommit("load", "", items, cards.featuredLink, cards.featuredImageIndex)

\* onClick of the button of item i: the featured item is opened on Flickr,
\* which changes no state; another item becomes the featured one
ClickItem ==
    \E i \in 1..Len(cards.items) :
        IF cards.featuredLink = JStr(cards.items[i].link)
        THEN FeaturedCommit("open", cards.items[i].link, cards.items,
                            cards.featuredLink, cards.featuredImageIndex)
        ELSE FeaturedCommit("click", cards.items[i].link, cards.items,
                            JStr(cards.items[i].link), cards.featuredImageIndex)

\* onError of the featured image
ImageError ==
    /\ cards.featuredItem # JNull
    /\ FeaturedCommit("error", cards.featuredItem.link, cards.items, cards.featuredLink,
                      NextImageIndex(cards.featuredImageIndex, cards.candidates))

NextFeatured ==
    \/ LoadPhotos
    \/ ClickItem
    \/ ImageError

SpecFeatured == InitFeatured /\ [][NextFeatured]_vars

(***************************************************************************)
(* Properties.                                                             *)
(***************************************************************************)
\* the untiled product: C[r][c] = sum over n in [0, N) of A[r][n] * B[n][c]
RECURSIVE DirectDot(_, _, _, _, _)
DirectDot(A, B, r, c, n) ==
    IF n = 0 THEN 0
    ELSE DirectDot(A, B, r, c, n - 1) + A[r][n - 1] * B[n - 1][c]

DirectProduct(A, B) ==
    [r \in 0..(M - 1) |-> [c \in 0..(K - 1) |-> Num(DirectDot(A, B, r, c, N))]]

Clamp(v, lo, hi) == IF v < lo THEN lo ELSE IF v > hi THEN hi ELSE v

AllTriples == (0..(ROW_TILES - 1)) \X (0..(COL_TILES - 1)) \X (0..(INNER_TILES - 1))

\* C1: at the last step the materialized output has no unset element and
\* equals, element by element, the untiled product of the two input matrices.
C1_FinalStepCorrect ==
    (step = TOTAL_STEPS - 1) =>
        /\ \A r \in 0..(M - 1), c \in 0..(K - 1) : view.partialC[r][c] # null
        /\ view.partialC = DirectProduct(matrixA, matrixB)

\* the last step over a single-entry A with a negative entry in its last row:
\* the narrow last output tile holds a negative sum
C1_Witness ==
    /\ step = TOTAL_STEPS - 1
    /\ lastOp = "sweep"
    /\ \E n \in 0..(N - 1) : matrixA[M - 1][n] < 0
    /\ \E c \in 0..(K - 1) : view.partialC[M - 1][c] # null /\ view.partialC[M - 1][c][1] < 0

\* C2: decoding the steps 0 .. TOTAL_STEPS - 1 in order visits every triple of
\* row tile, column tile and inner tile exactly once, each component within
\* its bound, the inner tile varying fastest, then the column tile, then the
\* row tile.
C2_DecodeBijection ==
    (lastOp = "sweep") =>
        /\ Len(visited) = step + 1
        /\ \A i \in 1..Len(visited) : visited[i] \in AllTriples
        /\ \A i, j \in 1..Len(visited) : i # j => visited[i] # visited[j]
        /\ \A i \in 1..Len(visited) :
              (visited[i][1] * COL_TILES + visited[i][2]) * INNER_TILES + visited[i][3] = i - 1
        /\ (step = TOTAL_STEPS - 1) =>
              /\ {visited[i] : i \in 1..Len(visited)} = AllTriples
              /\ Len(visited) = Cardinality(AllTriples)

C2_Witness ==
    /\ lastOp = "sweep"
    /\ Len(visited) = TOTAL_STEPS
    /\ visited[1] = <<0, 0, 0>>
    /\ visited[TOTAL_STEPS] = <<ROW_TILES - 1, COL_TILES - 1, INNER_TILES - 1>>

\* C3: after a slider change asked for any integer v, in or out of range, the
\* step is max(0, min(TOTAL_STEPS - 1, v)).
C3_SeekClamps ==
    (lastOp = "seek") =>
        /\ step \in Int
        /\ step = Clamp(lastArg, 0, TOTAL_STEPS - 1)

C3_Witness ==
    /\ lastOp = "seek"
    /\ lastArg >= TOTAL_STEPS
    /\ step = TOTAL_STEPS - 1

\* C4: in every state reachable by next, previous, reset, seek, togglePlay and
\* timer ticks the step is an integer with 0 <= step < TOTAL_STEPS.
C4_StepInRange == step \in 0..(TOTAL_STEPS - 1)

C4_Witness ==
    /\ lastOp = "prev"
    /\ prev.step = 0
    /\ step = TOTAL_STEPS - 1

\* C5: a seek invoked while autoplay is on leaves the autoplay flag false and
\* the step at the sought value, and no timer tick can fire afterwards: the
\* step stays until the next user operation.
C5_SeekCancelsAutoplay ==
    (lastOp = "seek" /\ prev.isPlaying) =>
        /\ ~isPlaying
        /\ (lastArg \in 0..(TOTAL_STEPS - 1) => step = lastArg)
        /\ intervals = {}
        /\ ~ENABLED Tick

C5_Witness ==
    /\ lastOp = "seek"
    /\ prev.isPlaying
    /\ prev.step # step
    /\ step = lastArg

\* C6: next() goes to the following step and from the last step to 0,
\* previous() goes to the preceding step and from 0 to the last step; with
\* TOTAL_STEPS = 12 that is 11 -> 0 and 0 -> 11.
C6_Wraparound ==
    /\ TOTAL_STEPS = 12
    /\ (lastOp = "next") =>
          step = IF prev.step = TOTAL_STEPS - 1 THEN 0 ELSE prev.step + 1
    /\ (lastOp = "prev") =>
          step = IF prev.step = 0 THEN TOTAL_STEPS - 1 ELSE prev.step - 1

C6_Witness ==
    /\ lastOp = "next"
    /\ prev.step = 11
    /\ step = 0

\* C7: after next, previous, seek or reset the autoplay flag is false whatever
\* it was before, and only togglePlay turns the flag from false to true.
C7_ManualNavigationPauses ==
    /\ (lastOp \in {"next", "prev", "seek", "reset"}) => ~isPlaying
    /\ (isPlaying /\ ~prev.isPlaying) => lastOp = "toggle"

C7_Witness ==
    /\ lastOp = "prev"
    /\ prev.isPlaying
    /\ ~isPlaying

\* C8: togglePlay flips the autoplay flag and leaves the step; a timer tick
\* happens only while the flag is true and advances the step by exactly one
\* modulo TOTAL_STEPS; while the flag is false no tick can fire.
C8_ToggleAndTick ==
    /\ (lastOp = "toggle") =>
          /\ isPlaying = ~prev.isPlaying
          /\ step = prev.step
          /\ mounted
    /\ (lastOp = "tick") =>
          /\ prev.isPlaying
          /\ isPlaying
          /\ step = (prev.step + 1) % TOTAL_STEPS
    /\ ~isPlaying => ~ENABLED Tick

C8_Witness ==
    /\ lastOp = "tick"
    /\ isPlaying
    /\ prev.step = TOTAL_STEPS - 1
    /\ step = 0

\* C9: reset sets the step to 0 and the autoplay flag to false from any step,
\* playing or not.
C9_Reset ==
    (lastOp = "reset") => (step = 0 /\ ~isPlaying)

C9_Witness ==
    /\ lastOp = "reset"
    /\ prev.isPlaying
    /\ prev.step > 0
    /\ step = 0

\* C10: an interval is scheduled only while the autoplay flag is true and the
\* component is mounted, at most one interval is scheduled at any time, and no
\* callback can fire after the component is unmounted.
C10_TimerRelease ==
    /\ (intervals # {}) => (isPlaying /\ mounted)
    /\ Cardinality(intervals) <= 1
    /\ (isPlaying /\ mounted) => intervals = {timer}
    /\ ~mounted => ~ENABLED Tick
    /\ (lastOp = "tick") => mounted

C10_Witness ==
    /\ lastOp = "unmount"
    /\ ~mounted
    /\ prev.isPlaying
    /\ intervals = {}

\* the progress of output tile (rt, ct) at step s, as the specification gives it
Progress(s, rt, ct) == Clamp(s - (rt * COL_TILES + ct) * INNER_TILES + 1, 0, INNER_TILES)

OutputTiles == (0..(ROW_TILES - 1)) \X (0..(COL_TILES - 1))

\* C11: over the steps 0 .. TOTAL_STEPS - 1 taken in order, the progress of
\* every output tile never decreases, is 0 before the tile's first contribution
\* step and is INNER_TILES at its last contribution step and at every later step.
C11_ProgressMonotonic ==
    /\ [](lastOp = "sweep" =>
            \A t \in OutputTiles :
                LET first == (t[1] * COL_TILES + t[2]) * INNER_TILES
                IN  /\ step < first => view.cTileProgress[t[1]][t[2]] = 0
                    /\ step >= first + INNER_TILES - 1 =>
                          view.cTileProgress[t[1]][t[2]] = INNER_TILES)
    /\ [][lastOp = "sweep" =>
            \A t \in OutputTiles :
                view'.cTileProgress[t[1]][t[2]] >= view.cTileProgress[t[1]][t[2]]]_vars

\* a step of the sweep at which the first tile is complete, the second has one
\* contribution and the last has none
C11_Witness ==
    /\ lastOp = "sweep"
    /\ step = INNER_TILES
    /\ view.cTileProgress[0][0] = INNER_TILES
    /\ view.cTileProgress[0][1] = 1
    /\ view.cTileProgress[ROW_TILES - 1][COL_TILES - 1] = 0

\* C12: at every step the progress of every output tile (rt, ct) is
\* clamp(step - (rt*COL_TILES + ct)*INNER_TILES + 1, 0, INNER_TILES), and the
\* progress map shown is this value for every (rt, ct) and nothing else.
C12_ProgressFormula ==
    /\ DOMAIN view.cTileProgress = 0..(ROW_TILES - 1)
    /\ \A rt \in 0..(ROW_TILES - 1) : DOMAIN view.cTileProgress[rt] = 0..(COL_TILES - 1)
    /\ \A t \in OutputTiles :
          /\ tileContributionCount(step, t[1], t[2]) = Progress(step, t[1], t[2])
          /\ view.cTileProgress[t[1]][t[2]] = Progress(step, t[1], t[2])

C12_Witness ==
    /\ lastOp = "seek"
    /\ step = INNER_TILES + 1
    /\ view.cTileProgress[0][0] = INNER_TILES
    /\ view.cTileProgress[0][1] = INNER_TILES
    /\ view.cTileProgress[1][0] = 0

\* C13: at every step an output element (r, c) of tile (rt, ct) is null exactly
\* when the progress of the tile is 0, and is otherwise the sum of
\* A[r][n] * B[n][c] over n from 0 to min(progress * TILE_SIZE, N) - 1.
C13_PartialContent ==
    (lastOp = "sweep") =>
        \A r \in 0..(M - 1), c \in 0..(K - 1) :
            LET p == Progress(step, r \div TILE_SIZE, c \div TILE_SIZE)
                upto == IF p * TILE_SIZE < N THEN p * TILE_SIZE ELSE N
            IN  /\ (view.partialC[r][c] = null) <=> (p = 0)
                /\ p > 0 => view.partialC[r][c] = Num(DirectDot(matrixA, matrixB, r, c, upto))

\* a step at which one element is partially accumulated (set, and not yet the
\* full product) while another is still unset
C13_Witness ==
    /\ lastOp = "sweep"
    /\ step = INNER_TILES
    /\ view.partialC[0][TILE_SIZE] # null
    /\ view.partialC[0][TILE_SIZE] # DirectProduct(matrixA, matrixB)[0][TILE_SIZE]
    /\ view.partialC[M - 1][K - 1] = null

\* a finished direct call of getTileRange with an invalid tile index
InvalidRangeCall ==
    /\ call.fn = "getTileRange"
    /\ call.done
    /\ (call.args[1] < 0 \/ call.args[1] * TILE_SIZE >= call.args[2])

InvalidDecodeCall ==
    /\ call.fn = "decode"
    /\ call.done
    /\ (call.args[1] < 0 \/ call.args[1] >= TOTAL_STEPS)

C16_TileRange ==
    (/\ call.fn = "getTileRange"
     /\ call.done
     /\ call.args[1] >= 0
     /\ call.args[1] * TILE_SIZE < call.args[2]) =>
        LET t == call.args[1]
            E == call.args[2]
            last == t * TILE_SIZE + TILE_SIZE - 1
            tiles == 0..(((E + TILE_SIZE - 1) \div TILE_SIZE) - 1)
        IN  /\ call.error = "none"
            /\ call.value = <<t * TILE_SIZE, IF last < E - 1 THEN last ELSE E - 1>>
            /\ call.value[1] <= call.value[2]
            /\ call.value[2] < E
            /\ call.value[2] - call.value[1] + 1 <= TILE_SIZE
            /\ \A i \in 0..(E - 1) :
                  Cardinality({u \in tiles : inRange(i, getTileRange(u, E))}) = 1
            /\ \A u \in tiles : \A i \in getTileRange(u, E)[1]..getTileRange(u, E)[2] :
                  i \in 0..(E - 1)
            /\ (TILE_SIZE = 4 /\ E = 7 /\ t = 0) => call.value = <<0, 3>>
            /\ (TILE_SIZE = 4 /\ E = 7 /\ t = 1) => call.value = <<4, 6>>

C16_Witness ==
    /\ call.fn = "getTileRange"
    /\ call.done
    /\ call.args = <<1, 7>>
    /\ call.value = <<4, 6>>

\* the index range of tile t along a dimension of extent E
TileSpan(t, E) ==
    <<t * TILE_SIZE,
      IF t * TILE_SIZE + TILE_SIZE - 1 < E - 1 THEN t * TILE_SIZE + TILE_SIZE - 1 ELSE E - 1>>

\* the sum of A[r][n] * B[n][c] over n in lo..hi
DotOver(A, B, r, c, lo, hi) == DirectDot(A, B, r, c, hi + 1) - DirectDot(A, B, r, c, lo)

\* what a step shows, written from the step alone: the triple by its linear
\* index, the ranges by tile arithmetic, the progress by the clamp, the output
\* by plain sums
ObservedAt(A, B, s) ==
    LET t == CHOOSE x \in AllTriples : (x[1] * COL_TILES + x[2]) * INNER_TILES + x[3] = s
    IN  [rowTile |-> t[1], colTile |-> t[2], innerTile |-> t[3],
         activeA |-> [row |-> TileSpan(t[1], M), col |-> TileSpan(t[3], N)],
         activeB |-> [row |-> TileSpan(t[3], N), col |-> TileSpan(t[2], K)],
         activeC |-> [row |-> TileSpan(t[1], M), col |-> TileSpan(t[2], K)],
         cTileProgress |->
            [rt \in 0..(ROW_TILES - 1) |-> [ct \in 0..(COL_TILES - 1) |-> Progress(s, rt, ct)]],
         partialC |->
            [r \in 0..(M - 1) |-> [c \in 0..(K - 1) |->
                LET p == Progress(s, r \div TILE_SIZE, c \div TILE_SIZE)
                IN  IF p = 0 THEN null
                    ELSE Num(DirectDot(A, B, r, c,
                                       IF p * TILE_SIZE < N THEN p * TILE_SIZE ELSE N))]]]

\* C17: whatever sequence of next, previous, seek, reset, togglePlay and ticks
\* led to a step, the decoded triple, the active ranges of A, B and C, the
\* partial output and the progress map shown are the same function of that
\* step (and of the fixed matrices): nothing else of the run is carried over.
C17_ViewIsFunctionOfStep ==
    (lastOp \notin {"sweep", "call"}) => view = ObservedAt(matrixA, matrixB, step)

\* step 5 reached by a timer tick, which a seek or five next() reach as well
C17_Witness ==
    /\ lastOp = "tick"
    /\ step = 5
    /\ Triple(view) = <<0, 2, 1>>
    /\ view.partialC[0][K - 1] # null

\* the number held by an output cell, 0 for an unset one
CellValue(cell) == IF cell = null THEN 0 ELSE cell[1]

\* C18: from each step s to s + 1 the output is unchanged outside the output
\* tile active at s + 1, and inside it every element is its value at s (0 if
\* unset) plus the sum of A[r][n] * B[n][c] over the inner tile active at s + 1.
C18_Incremental ==
    [][lastOp = "sweep" =>
        LET rows == TileSpan(view'.rowTile, M)
            cols == TileSpan(view'.colTile, K)
            inner == TileSpan(view'.innerTile, N)
        IN  \A r \in 0..(M - 1), c \in 0..(K - 1) :
                IF r \in rows[1]..rows[2] /\ c \in cols[1]..cols[2]
                THEN view'.partialC[r][c] =
                        Num(CellValue(view.partialC[r][c])
                            + DotOver(matrixA, matrixB, r, c, inner[1], inner[2]))
                ELSE view'.partialC[r][c] = view.partialC[r][c]]_vars

\* step 1: the second inner tile has been added to a set element of tile (0, 0)
C18_Witness ==
    /\ lastOp = "sweep"
    /\ step = 1
    /\ prev.step = 0
    /\ DirectDot(matrixA, matrixB, 0, 0, TILE_SIZE) # 0
    /\ view.partialC[0][0] # Num(DirectDot(matrixA, matrixB, 0, 0, TILE_SIZE))
    /\ view.partialC[0][TILE_SIZE] = null

\* C19: at every step buildPartialC performs finitely many reads and writes,
\* reads only matrixA[r][n] and matrixB[n][c] with 0 <= r < M, 0 <= n < N,
\* 0 <= c < K, and writes only out[r][c] with 0 <= r < M, 0 <= c < K.
C19_InBounds ==
    (lastOp = "sweep") =>
        /\ \A w \in PartialCWrites(step) : w.r \in 0..(M - 1) /\ w.c \in 0..(K - 1)
        /\ \A rd \in PartialCReads(step) :
              /\ rd[1] \in 0..(M - 1) /\ rd[2] \in 0..(N - 1) /\ rd[3] \in 0..(K - 1)
              /\ rd[1] \in DOMAIN matrixA /\ rd[2] \in DOMAIN matrixA[rd[1]]
              /\ rd[2] \in DOMAIN matrixB /\ rd[3] \in DOMAIN matrixB[rd[2]]
        /\ Cardinality(PartialCWrites(step)) <= M * K
        /\ Cardinality(PartialCReads(step)) <= M * N * K

\* the last step: the narrow last tiles are written and read up to their last index
C19_Witness ==
    /\ lastOp = "sweep"
    /\ step = TOTAL_STEPS - 1
    /\ \E w \in PartialCWrites(step) : w.r = M - 1 /\ w.c = K - 1
    /\ <<M - 1, N - 1, K - 1>> \in PartialCReads(step)
    /\ Cardinality(PartialCReads(step)) = M * N * K

\* C20: for M = 7, N = 6, K = 9 and tile size 4 there are 2 row tiles, 2 inner
\* tiles, 3 column tiles and 12 steps; step 0 decodes to (0, 0, 0) and step 11
\* to (1, 2, 1).
C20_Example ==
    /\ M = 7 /\ N = 6 /\ K = 9 /\ TILE_SIZE = 4
    /\ ROW_TILES = 2 /\ INNER_TILES = 2 /\ COL_TILES = 3
    /\ TOTAL_STEPS = 12
    /\ step = 0 => Triple(view) = <<0, 0, 0>>
    /\ step = 11 => Triple(view) = <<1, 2, 1>>

C20_Witness ==
    /\ lastOp = "prev"
    /\ prev.step = 0
    /\ step = 11
    /\ Triple(view) = <<1, 2, 1>>

C23_DerivedConstants ==
    (call.fn = "derive" /\ call.done) =>
        /\ \A i \in 1..4 : call.args[i] >= 1
        /\ \A i \in 1..3 : call.value[i] >= 1
        /\ call.value[4] = call.value[1] * call.value[3] * call.value[2]
        /\ call.value[4] > 0

\* every dimension is smaller than the tile: each count is 0 rounded up to 1
C23_Witness ==
    /\ call.fn = "derive" /\ call.done
    /\ \A i \in 1..3 : call.args[i] < call.args[4]
    /\ call.value = <<1, 1, 1, 1>>
\* C24: once the user leaves a mounted simulator alone with the autoplay flag
\* true, the timer ticks make every step of [0, TOTAL_STEPS) come back again
\* and again; the tick at TOTAL_STEPS - 1 leads to step 0, and no tick changes
\* the flag.
C24_AutoplayLoops ==
    /\ (<>[][lastOp' = "tick"]_vars /\ <>[](isPlaying /\ mounted))
           => \A s \in 0..(TOTAL_STEPS - 1) : []<>(step = s)
    /\ [][lastOp' = "tick" =>
            /\ isPlaying' = isPlaying
            /\ step = TOTAL_STEPS - 1 => step' = 0]_vars

\* a tick has just wrapped from the last step to step 0, still playing
C24_Witness ==
    /\ lastOp = "tick"
    /\ prev = [step |-> TOTAL_STEPS - 1, isPlaying |-> TRUE]
    /\ step = 0
    /\ isPlaying /\ mounted /\ intervals # {}
\* sum of the progress counts of the output tiles with linear index 0 .. i
RECURSIVE SumOverTiles(_, _)
SumOverTiles(P, i) ==
    IF i < 0 THEN 0
    ELSE P[i \div COL_TILES][i % COL_TILES] + SumOverTiles(P, i - 1)

\* C25: at every step, which decodes to (rt, ct, it), the active output tile
\* has progress it + 1, every output tile before it in row-major order has
\* progress INNER_TILES, every tile after it has progress 0, and the progress
\* counts of all output tiles add up to step + 1.
C25_ProgressFront ==
    LET it == step % INNER_TILES
        ct == (step \div INNER_TILES) % COL_TILES
        rt == step \div (INNER_TILES * COL_TILES)
        P == view.cTileProgress
    IN  /\ <<view.rowTile, view.colTile, view.innerTile>> = <<rt, ct, it>>
        /\ P[rt][ct] = it + 1
        /\ \A t \in OutputTiles :
              /\ t[1] * COL_TILES + t[2] < rt * COL_TILES + ct => P[t[1]][t[2]] = INNER_TILES
              /\ t[1] * COL_TILES + t[2] > rt * COL_TILES + ct => P[t[1]][t[2]] = 0
        /\ SumOverTiles(P, ROW_TILES * COL_TILES - 1) = step + 1

\* a step in the second row of output tiles whose tile is partially
\* accumulated: finished tiles before it, untouched tiles after it
C25_Witness ==
    /\ view.rowTile = 1 /\ view.colTile = 1
    /\ view.cTileProgress[1][1] < INNER_TILES
    /\ view.cTileProgress[0][2] = INNER_TILES
    /\ view.cTileProgress[1][2] = 0
    /\ lastOp = "tick"
\* C26: in the im2col visualizer a timer tick before the last step adds one
\* to step; a tick at the last step keeps step and sets isPlaying to false,
\* without wrapping to 0.  So an autoplay that is left alone ends, and ends
\* at step IM2COL_TOTAL_STEPS - 1 with isPlaying false.
C26_AutoplayStopsAtEnd ==
    /\ [](im2col.lastOp = "tick" =>
            IF im2col.prev.step < IM2COL_TOTAL_STEPS - 1
            THEN im2col.step = im2col.prev.step + 1 /\ im2col.isPlaying = im2col.prev.isPlaying
            ELSE im2col.step = im2col.prev.step /\ ~im2col.isPlaying)
    /\ (<>[][im2col'.lastOp = "tick"]_vars /\ <>[]im2col.mounted)
           => <>[](/\ ~im2col.isPlaying
                   /\ im2col.lastOp = "tick" => im2col.step = IM2COL_TOTAL_STEPS - 1)

\* the tick at the last step has just stopped the autoplay
C26_Witness ==
    /\ im2col.lastOp = "tick"
    /\ im2col.prev.step = IM2COL_TOTAL_STEPS - 1 /\ im2col.prev.isPlaying
    /\ im2col.step = IM2COL_TOTAL_STEPS - 1
    /\ ~im2col.isPlaying /\ im2col.intervals = {}

\* C27: in the im2col visualizer, whatever stepOnce, handleSlider(v), reset,
\* switchMode, Play/Pause and timer ticks have happened,
\* 0 <= step <= IM2COL_TOTAL_STEPS - 1; stepOnce at the last step yields 0;
\* handleSlider(v) yields max(0, min(IM2COL_TOTAL_STEPS - 1, v)); and
\* stepOnce, handleSlider and reset each leave isPlaying false.
C27_Im2colStepInvariant ==
    /\ im2col.step \in 0..(IM2COL_TOTAL_STEPS - 1)
    /\ im2col.lastOp = "stepOnce" =>
          im2col.step = IF im2col.prev.step = IM2COL_TOTAL_STEPS - 1 THEN 0
                        ELSE im2col.prev.step + 1
    /\ im2col.lastOp = "handleSlider" =>
          im2col.step = Clamp(im2col.lastArg, 0, IM2COL_TOTAL_STEPS - 1)
    /\ im2col.lastOp \in {"stepOnce", "handleSlider", "reset"} =>
          ~im2col.isPlaying /\ im2col.intervals = {}

\* the slider was asked for a value above the last step while playing
C27_Witness ==
    /\ im2col.lastOp = "handleSlider"
    /\ im2col.lastArg > IM2COL_TOTAL_STEPS - 1
    /\ im2col.prev.isPlaying
    /\ im2col.step = IM2COL_TOTAL_STEPS - 1
\* the convolution window at (y, x): sum of image[y + ky][x + kx] * kernel[ky][kx]
RECURSIVE DirectConv(_, _, _, _, _)
DirectConv(image, kernel, y, x, j) ==
    IF j >= KERNEL_SIZE * KERNEL_SIZE THEN 0
    ELSE image[y + (j \div KERNEL_SIZE)][x + (j % KERNEL_SIZE)]
             * kernel[j \div KERNEL_SIZE][j % KERNEL_SIZE]
         + DirectConv(image, kernel, y, x, j + 1)

\* C28: buildIm2Col yields exactly IM2COL_TOTAL_STEPS rows of
\* KERNEL_VECTOR_SIZE entries, and for every i in [0, IM2COL_TOTAL_STEPS)
\* results[i], the dot product of row i with the flattened kernel, is the
\* direct convolution at y = floor(i / OUTPUT_SIZE), x = i mod OUTPUT_SIZE;
\* the result shown at the current step is the one of the window at
\* (currentY, currentX).
C28_Im2colIsConvolution ==
    /\ Len(conv.im2colRows) = IM2COL_TOTAL_STEPS
    /\ Len(conv.results) = IM2COL_TOTAL_STEPS
    /\ \A i \in 0..(IM2COL_TOTAL_STEPS - 1) :
          /\ Len(conv.im2colRows[i + 1]) = KERNEL_VECTOR_SIZE
          /\ conv.results[i + 1] =
                DirectConv(conv.image, conv.kernel, i \div OUTPUT_SIZE, i % OUTPUT_SIZE, 0)
    /\ conv.currentResult =
          DirectConv(conv.image, conv.kernel, conv.currentY, conv.currentX, 0)

\* an image with a single entry off the diagonal under a single-entry
\* kernel, at a step whose window puts the kernel entry on it
C28_Witness ==
    /\ conv.image[1][3] # 0 /\ conv.image[3][1] = 0
    /\ conv.kernel[0][1] # 0 /\ conv.kernel[1][0] = 0
    /\ conv.currentY = 1 /\ conv.currentX = 2
    /\ conv.currentResult # 0
\* C35: in the im2col visualizer switchMode(m), for either mode m and also
\* for the mode already selected, leaves mode = m, step = 0 and isPlaying
\* false.
C35_SwitchModeResets ==
    im2col.lastOp = "switchMode" =>
        /\ im2col.lastArg \in {"conv", "im2col"}
        /\ im2col.mode = im2col.lastArg
        /\ im2col.step = 0
        /\ ~im2col.isPlaying /\ im2col.intervals = {}

\* the mode already selected was selected again while the autoplay was
\* running past step 0
C35_Witness ==
    /\ im2col.lastOp = "switchMode"
    /\ im2col.prev.mode = im2col.mode /\ im2col.mode = "im2col"
    /\ im2col.prev.isPlaying /\ im2col.prev.step > 0
    /\ im2col.step = 0 /\ ~im2col.isPlaying
\* C36: every entry of a matrix built by buildMatrix(rows, cols, seed) is an
\* integer from 1 to 9 and is the same at (r, c) whatever rows and cols are;
\* so with built matrices every cell that is set in the partial or the final
\* output is an integer from 1 to 81 * N.
C36_SmallPositiveEntries ==
    /\ matrixA \in SeedMatrices(M, N) =>
          \A r \in 0..(M - 1), c \in 0..(N - 1) : matrixA[r][c] \in 1..9
    /\ matrixB \in SeedMatrices(N, K) =>
          \A r \in 0..(N - 1), c \in 0..(K - 1) : matrixB[r][c] \in 1..9
    /\ \A seed \in Seeds :
          (matrixA = buildMatrix(M, N, seed) /\ matrixB = buildMatrix(N, K, seed)) =>
              \A r \in 0..(MathMin(M, N) - 1), c \in 0..(MathMin(N, K) - 1) :
                  matrixA[r][c] = matrixB[r][c]
    /\ (matrixA \in SeedMatrices(M, N) /\ matrixB \in SeedMatrices(N, K)) =>
          \A r \in 0..(M - 1), c \in 0..(K - 1) :
              \/ view.partialC[r][c] = null
              \/ view.partialC[r][c][1] \in 1..(81 * N)

\* the matrices of the demonstration at the last step: every cell is set, A
\* holds a 1 and a 9, and a cell of the output exceeds 81
C36_Witness ==
    /\ matrixA = buildMatrix(M, N, 1) /\ matrixB = buildMatrix(N, K, 3)
    /\ step = TOTAL_STEPS - 1
    /\ \E r \in 0..(M - 1), c \in 0..(N - 1) : matrixA[r][c] = 1
    /\ \E r \in 0..(M - 1), c \in 0..(N - 1) : matrixA[r][c] = 9
    /\ \A r \in 0..(M - 1), c \in 0..(K - 1) : view.partialC[r][c] # null
    /\ \E r \in 0..(M - 1), c \in 0..(K - 1) : view.partialC[r][c][1] > 81
\* the limit of a proxy for its limit parameter, as claimed: 10 for an absent
\* parameter and for one that is no finite number, otherwise the number
\* brought into 1..cap
ClaimedLimit(param, cap) ==
    IF ~param.present THEN 10
    ELSE IF param.value = <<>> THEN Clamp(0, 1, cap)
    ELSE IF IsDecimal(param.value) THEN Clamp(Number(param.value), 1, cap)
    ELSE 10

\* C34: whatever the limit query parameter is, a feed proxy returns at most
\* as many items as its effective limit: max(1, min(limit, cap)) when the
\* parameter parses to a finite number and 10 otherwise, also when it is
\* absent, with cap 24 for /api/flickr and cap 20 for /api/letterboxd.
C34_LimitClamp ==
    (proxy.done /\ proxy.outcome.kind = "response") =>
        Len(proxy.outcome.items)
            <= ClaimedLimit(proxy.limit, IF proxy.endpoint = "flickr" THEN 24 ELSE 20)

\* /api/letterboxd was asked for more items than its cap, the upstream text
\* holds more than that, and the answer carries as many items as the cap
C34_Witness ==
    /\ proxy.done /\ proxy.endpoint = "letterboxd"
    /\ proxy.limit.present /\ IsDecimal(proxy.limit.value)
    /\ Number(proxy.limit.value) > 20
    /\ Len(proxy.upstream.blocks) > 20
    /\ Len(proxy.outcome.items) = 20
C31_FeaturedValid ==
    /\ (/\ cards.lastOp = "load"
        /\ cards.prev.featuredLink # JNull
        /\ \A i \in 1..Len(cards.items) : JStr(cards.items[i].link) # cards.prev.featuredLink)
          => cards.featuredLink = JNull
    /\ \/ cards.featuredLink = JNull
       \/ \E i \in 1..Len(cards.items) : JStr(cards.items[i].link) = cards.featuredLink
    /\ (cards.featuredItem # JNull) <=> (cards.featuredLink # JNull)
    /\ cards.featuredItem # JNull =>
          /\ JStr(cards.featuredItem.link) = cards.featuredLink
          /\ \E i \in 1..Len(cards.items) : cards.items[i] = cards.featuredItem

\* a load has brought a list, not empty, without the featured photo
C31_Witness ==
    /\ cards.lastOp = "load"
    /\ cards.prev.featuredLink # JNull /\ cards.prev.featuredItem # JNull
    /\ cards.items # <<>>
    /\ cards.featuredLink = JNull /\ cards.featuredItem = JNull
\* the index of the last candidate of the featured image
LastCandidate == Len(cards.candidates) - 1

\* the featured image is shown from one of its candidates or from imageUrl,
\* and a change of the featured item's link has set the index to 0
FallbackFrame ==
    /\ LinkOf(cards.featuredItem) # LinkOf(cards.prev.featuredItem) =>
          cards.featuredImageIndex = 0
    /\ cards.featuredItem # JNull =>
          \/ \E i \in 1..Len(cards.candidates) : cards.src = cards.candidates[i]
          \/ cards.src = cards.featuredItem.imageUrl

\* C32: every error of the featured image adds exactly one to
\* featuredImageIndex until it is candidates.length - 1, and leaves it
\* unchanged from there on; the index is 0 after a change of the featured
\* item's link; the image is shown from a candidate or from imageUrl.
C32_FallbackSaturates ==
    /\ cards.lastOp = "error" =>
          cards.featuredImageIndex =
              IF cards.prev.featuredImageIndex < LastCandidate
              THEN cards.prev.featuredImageIndex + 1
              ELSE cards.prev.featuredImageIndex
    /\ FallbackFrame
\* C22: a feed proxy answers an upstream fetch that succeeds (and, for
\* Flickr, parses as JSON) with a JSON object holding profile, updatedAt and
\* items; it answers an upstream response that is not ok (or a Flickr body
\* that is no valid JSON) with status 502, a body holding only an error
\* message and Cache-Control: no-store.
C22_ProxyAnswers ==
    proxy.done =>
        IF proxy.upstream.ok /\ (proxy.endpoint = "flickr" => proxy.upstream.json)
        THEN /\ proxy.outcome.kind = "response"
             /\ proxy.outcome.keys = {"profile", "updatedAt", "items"}
        ELSE /\ proxy.outcome.kind = "response"
             /\ proxy.outcome.status = 502
             /\ proxy.outcome.keys = {"error"}
             /\ proxy.outcome.cacheControl = "no-store"
\* the request that has just settled was issued by a run of the effect that
\* had been cleaned up by then: the component was unmounted, or
\* requestedLimit had changed
StaleSettle ==
    /\ feed.lastOp = "settle"
    /\ ~feed.prev.mounted \/ feed.lastReq.effect # feed.prev.effect

\* C29: in FlickrRecent and LetterboxdRecent, once the component is
\* unmounted or requestedLimit has changed, a request of the previous run of
\* the effect that completes, with success or failure, changes none of items,
\* error, isLoading and profileUrl; that run's polling interval is cleared
\* and issues no further request; a mounted component has at most one
\* polling interval.
C29_StaleDiscarded ==
    /\ StaleSettle => Shown(feed) = feed.prev.shown
    /\ feed.intervals \subseteq (IF feed.mounted THEN {feed.effect} ELSE {})
    /\ Cardinality(feed.intervals) <= 1
    /\ feed.lastOp = "poll" => feed.prev.mounted /\ feed.lastReq.effect = feed.prev.effect

\* a request of the first run comes back with a list of items after the
\* limit has changed, while the component shows no item
C29_Witness ==
    /\ StaleSettle
    /\ feed.mounted /\ feed.lastReq.effect < feed.effect
    /\ feed.lastResponse.ok /\ feed.lastResponse.json
    /\ ~Nullish(feed.lastResponse.data)
    /\ ~Nullish(Get(feed.lastResponse.data, "items"))
    /\ Get(feed.lastResponse.data, "items").elems # <<>>
    /\ feed.items = <<>> /\ feed.isLoading

\* the request that has just settled is one of the current run of the effect
CurrentSettle ==
    /\ feed.lastOp = "settle"
    /\ feed.prev.mounted /\ feed.lastReq.effect = feed.prev.effect

\* the request came back ok with a JSON object
SuccessfulLoad ==
    /\ feed.lastResponse.kind = "response"
    /\ feed.lastResponse.ok /\ feed.lastResponse.json
    /\ feed.lastResponse.data.type = "object"

\* C30: in FlickrRecent and LetterboxdRecent a successful load of the
\* current run of the effect replaces items and sets error to null; a failed
\* load sets error and leaves items unchanged; isLoading is true from the
\* start of a run until the first load of that run settles, and false after
\* every settled load of the current run.
C30_LoadOutcome ==
    /\ (CurrentSettle /\ SuccessfulLoad) =>
          /\ feed.items = IF "items" \in DOMAIN feed.lastResponse.data.fields
                          THEN feed.lastResponse.data.fields["items"].elems ELSE <<>>
          /\ feed.error = JNull
    /\ (CurrentSettle /\ ~SuccessfulLoad) =>
          /\ feed.error # JNull
          /\ feed.items = feed.prev.shown.items
    /\ CurrentSettle => ~feed.isLoading
    /\ feed.mounted => (feed.isLoading <=> ~feed.settled)

\* a poll of the current run fails after an earlier load had brought items:
\* the items stay, the error is set
C30_Witness ==
    /\ CurrentSettle /\ ~SuccessfulLoad
    /\ feed.prev.settled /\ feed.prev.shown.error = JNull
    /\ feed.items # <<>> /\ feed.items = feed.prev.shown.items
    /\ feed.error # JNull /\ ~feed.isLoading
====
